---- MODULE Spec2Model ----
(***************************************************************************)
(* Model of the scout-sdk content segmenter (ContentProcessor) and of the  *)
(* search-result ranker (OpenRAGClient).                                   *)
(*                                                                         *)
(* A JavaScript string is a sequence of one-character strings, so that     *)
(* length, split, join, trim, substring and the regular expressions of the *)
(* source are computed character by character.                             *)
(***************************************************************************)
EXTENDS Integers, Sequences, FiniteSets, TLC

VARIABLES
    config,     \* the OpenRAGConfig.processing values given to the constructor
    source,     \* the GitHubContent / DocumentationContent being processed
    done,       \* number of files / pages of the source already chunked
    chunks,     \* the chunks accumulated by process*Content so far
    diverged,   \* TRUE when a splitter loop did not terminate
    raw,        \* the matches returned by the vector store for a query
    query,      \* the query string of the search
    options,    \* the SearchOptions of the search
    scored,     \* rankAndDiversifyResults: the sorted list with adjustedScore
    ranked,     \* the list returned by rankAndDiversifyResults
    formatOptions, \* the FormatOptions given to formatForAI
    context,    \* the FormattedContext returned by formatForAI
    embeddings, \* generateEmbeddings: the array of vectors being filled
    batch,      \* generateEmbeddings / upsertVectors: index i of the batch at hand
    retries,    \* upsertVectors: the failed attempts of the batch at hand
    log,        \* upsertVectors: the requests sent to the store and the waits
    phase,      \* position of the client: "index", "search", "ranked", ...
    client      \* OpenRAGClient.initialized, the browser of its WebScrapingService,
                \* and the operations under way on it

vars == <<config, source, done, chunks, diverged, raw, query, options, scored, ranked,
          formatOptions, context, embeddings, batch, retries, log, phase, client>>

(***************************************************************************)
(* Strings                                                                 *)
(***************************************************************************)
SetMin(S) == CHOOSE x \in S : \A y \in S : x <= y
SetMax(S) == CHOOSE x \in S : \A y \in S : x >= y
Min2(a, b) == IF a <= b THEN a ELSE b
Max2(a, b) == IF a >= b THEN a ELSE b

\* JavaScript's undefined, for an optional string field
Undefined == <<"undefined">>

NL == "\n"

\* the characters \s matches and trim() removes
IsSpace(c) == c \in {" ", "\t", "\n", "\r", "\f"}
\* the characters . does not match
IsLineTerminator(c) == c \in {"\n", "\r"}
IsDot(c) == ~IsLineTerminator(c)

LowerLetters == <<"a","b","c","d","e","f","g","h","i","j","k","l","m",
                  "n","o","p","q","r","s","t","u","v","w","x","y","z">>
UpperLetters == <<"A","B","C","D","E","F","G","H","I","J","K","L","M",
                  "N","O","P","Q","R","S","T","U","V","W","X","Y","Z">>
Digits == <<"0","1","2","3","4","5","6","7","8","9">>

\* the characters \w matches
IsWord(c) ==
    \/ \E i \in 1..26 : c = LowerLetters[i] \/ c = UpperLetters[i]
    \/ \E i \in 1..10 : c = Digits[i]
    \/ c = "_"

UpperSet == {UpperLetters[i] : i \in 1..26}

ToLowerChar(c) ==
    IF c \in UpperSet
    THEN LowerLetters[CHOOSE i \in 1..26 : c = UpperLetters[i]]
    ELSE c

\* String.prototype.toLowerCase
ToLowerCase(s) == SubSeq([i \in 1..Len(s) |-> ToLowerChar(s[i])], 1, Len(s))

\* String.prototype.trim
Trim(s) ==
    LET n == Len(s)
        \* the first and the last character that is not whitespace (n + 1, 0: none)
        first == CHOOSE i \in 1..(n + 1) :
                    /\ i <= n => ~IsSpace(s[i])
                    /\ \A j \in 1..(i - 1) : IsSpace(s[j])
        last == CHOOSE i \in 0..n :
                    /\ i >= 1 => ~IsSpace(s[i])
                    /\ \A j \in (i + 1)..n : IsSpace(s[j])
    IN  IF first > n THEN <<>> ELSE SubSeq(s, first, last)

\* s has w at (1-based) position p
HasAt(s, p, w) ==
    /\ p >= 1
    /\ p + Len(w) - 1 <= Len(s)
    /\ \A k \in 1..Len(w) : s[p + k - 1] = w[k]

StartsWith(s, w) == HasAt(s, 1, w)
EndsWith(s, w) == Len(w) <= Len(s) /\ HasAt(s, Len(s) - Len(w) + 1, w)
Includes(s, w) ==
    LET n == Len(s)
        m == Len(w)
    IN  \E p \in 1..(n - m + 1) : \A k \in 1..m : s[p + k - 1] = w[k]

\* String.prototype.split('\n')
RECURSIVE SplitLines(_)
SplitLines(s) ==
    LET nl == {i \in 1..Len(s) : s[i] = NL}
    IN  IF nl = {} THEN <<s>>
        ELSE LET k == SetMin(nl)
             IN  <<SubSeq(s, 1, k - 1)>> \o SplitLines(SubSeq(s, k + 1, Len(s)))

\* Array.prototype.join('\n')
RECURSIVE JoinLines(_)
JoinLines(ls) ==
    IF Len(ls) = 0 THEN <<>>
    ELSE IF Len(ls) = 1 THEN ls[1]
    ELSE ls[1] \o <<NL>> \o JoinLines(Tail(ls))

\* Array.prototype.slice(from, to) on 0-based indices, to exclusive
Slice(ls, from, to) == SubSeq(ls, from + 1, Min2(to, Len(ls)))

\* String.prototype.substring(a, b) on 0-based indices: negative arguments
\* count as 0, arguments beyond the end as the length, and a > b swaps them
Substring(s, a, b) ==
    LET ca == Min2(Max2(a, 0), Len(s))
        cb == Min2(Max2(b, 0), Len(s))
    IN  SubSeq(s, Min2(ca, cb) + 1, Max2(ca, cb))

\* the decimal digits of a number inside a template literal
RECURSIVE ToDecimal(_)
ToDecimal(n) ==
    IF n < 0 THEN <<"-">> \o ToDecimal(0 - n)
    ELSE IF n < 10 THEN <<Digits[n + 1]>>
    ELSE ToDecimal(n \div 10) \o <<Digits[(n % 10) + 1]>>

(***************************************************************************)
(* Regular expressions: the set of positions a pattern can end at when it  *)
(* starts at one of the positions P (position p is before character p).    *)
(***************************************************************************)
\* a literal word
ReLit(s, P, w) == {p + Len(w) : p \in {q \in P : HasAt(s, q, w)}}
\* one of several literal words
ReAlt(s, P, W) == UNION {ReLit(s, P, w) : w \in W}
\* the character classes \s, \w, . and [^)]
InClass(cls, c) ==
    CASE cls = "space" -> IsSpace(c)
      [] cls = "word" -> IsWord(c)
      [] cls = "dot" -> IsDot(c)
      [] cls = "noparen" -> c # ")"
\* at least n characters of a class
ReRun(s, P, cls, n) ==
    {q \in 1..(Len(s) + 1) :
        \E p \in P : q >= p + n /\ \A k \in p..(q - 1) : InClass(cls, s[k])}
ReSpaces0(s, P) == ReRun(s, P, "space", 0)
ReSpaces1(s, P) == ReRun(s, P, "space", 1)
ReWord1(s, P) == ReRun(s, P, "word", 1)
ReAny0(s, P) == ReRun(s, P, "dot", 0)
ReNoParen0(s, P) == ReRun(s, P, "noparen", 0)

(***************************************************************************)
(* String literals of the source                                           *)
(***************************************************************************)
Keyword ==
    [export    |-> <<"e","x","p","o","r","t">>,
     import    |-> <<"i","m","p","o","r","t">>,
     const     |-> <<"c","o","n","s","t">>,
     let       |-> <<"l","e","t">>,
     var       |-> <<"v","a","r">>,
     function  |-> <<"f","u","n","c","t","i","o","n">>,
     class     |-> <<"c","l","a","s","s">>,
     interface |-> <<"i","n","t","e","r","f","a","c","e">>,
     async     |-> <<"a","s","y","n","c">>,
     abstract  |-> <<"a","b","s","t","r","a","c","t">>,
     def       |-> <<"d","e","f">>,
     public    |-> <<"p","u","b","l","i","c">>,
     private   |-> <<"p","r","i","v","a","t","e">>,
     protected |-> <<"p","r","o","t","e","c","t","e","d">>,
     static    |-> <<"s","t","a","t","i","c">>,
     readme    |-> <<"r","e","a","d","m","e">>]

(***************************************************************************)
(* ContentProcessor: configuration                                         *)
(***************************************************************************)
DefaultMaxChunkSize == 8192
DefaultChunkOverlap == 200

\* constructor: config.processing?.maxChunkSize || 8192 (0 stands for unset)
maxChunkSize == IF config.maxChunkSize = 0 THEN DefaultMaxChunkSize ELSE config.maxChunkSize
chunkOverlap == IF config.chunkOverlap = 0 THEN DefaultChunkOverlap ELSE config.chunkOverlap

(***************************************************************************)
(* ContentProcessor: classification of files and lines                     *)
(***************************************************************************)
determineFileType(path, language) ==
    IF Includes(ToLowerCase(path), Keyword.readme) THEN "readme"
    ELSE IF language = "markdown" THEN "documentation"
    ELSE "code"

codeLanguages ==
    {"typescript", "javascript", "python", "java", "cpp", "c", "csharp",
     "php", "ruby", "go", "rust", "kotlin", "swift", "scala"}

isCodeFile(language) == language \in codeLanguages

supportsStructuralChunking(language) ==
    language \in {"typescript", "javascript", "python", "java", "cpp", "c", "csharp"}

\* /^(export\s+)?(async\s+)?(function|const|let|var)\s+\w+/
ReTsFunction(t) ==
    LET p0 == {1}
        p1 == p0 \cup ReSpaces1(t, ReLit(t, p0, Keyword.export))
        p2 == p1 \cup ReSpaces1(t, ReLit(t, p1, Keyword.async))
        p3 == ReAlt(t, p2, {Keyword.function, Keyword.const, Keyword.let, Keyword.var})
    IN  ReWord1(t, ReSpaces1(t, p3)) # {}

\* /^\w+\s*\([^)]*\)\s*:\s*\w+\s*=>/
ReTsArrow(t) ==
    LET p1 == ReSpaces0(t, ReWord1(t, {1}))
        p2 == ReLit(t, ReNoParen0(t, ReLit(t, p1, <<"(">>)), <<")">>)
        p3 == ReSpaces0(t, ReLit(t, ReSpaces0(t, p2), <<":">>))
        p4 == ReSpaces0(t, ReWord1(t, p3))
    IN  ReLit(t, p4, <<"=", ">">>) # {}

\* /^\s*(public|private|protected|static).*\w+\s*\([^)]*\)\s*{/
ReJavaMethod(t) ==
    LET p1 == ReAlt(t, ReSpaces0(t, {1}), {Keyword.public, Keyword.private, Keyword.protected, Keyword.static})
        p2 == ReSpaces0(t, ReWord1(t, ReAny0(t, p1)))
        p3 == ReLit(t, ReNoParen0(t, ReLit(t, p2, <<"(">>)), <<")">>)
    IN  ReLit(t, ReSpaces0(t, p3), <<"{">>) # {}

isFunctionStart(line, language) ==
    LET trimmed == Trim(line)
    IN  IF language \in {"typescript", "javascript"}
        THEN ReTsFunction(trimmed) \/ ReTsArrow(trimmed)
        ELSE IF language = "python"
        THEN ReWord1(trimmed, ReSpaces1(trimmed, ReLit(trimmed, {1}, Keyword.def))) # {}
        ELSE IF language \in {"java", "csharp"}
        THEN ReJavaMethod(trimmed)
        ELSE FALSE

\* /^(export\s+)?(abstract\s+)?class\s+\w+/
ReTsClass(t) ==
    LET p0 == {1}
        p1 == p0 \cup ReSpaces1(t, ReLit(t, p0, Keyword.export))
        p2 == p1 \cup ReSpaces1(t, ReLit(t, p1, Keyword.abstract))
    IN  ReWord1(t, ReSpaces1(t, ReLit(t, p2, Keyword.class))) # {}

\* /^\s*(public|private|protected)?\s*(abstract\s+)?class\s+\w+/
ReJavaClass(t) ==
    LET p0 == ReSpaces0(t, {1})
        p1 == ReSpaces0(t, p0 \cup ReAlt(t, p0, {Keyword.public, Keyword.private, Keyword.protected}))
        p2 == p1 \cup ReSpaces1(t, ReLit(t, p1, Keyword.abstract))
    IN  ReWord1(t, ReSpaces1(t, ReLit(t, p2, Keyword.class))) # {}

isClassStart(line, language) ==
    LET trimmed == Trim(line)
    IN  IF language \in {"typescript", "javascript"}
        THEN ReTsClass(trimmed)
        ELSE IF language = "python"
        THEN ReWord1(trimmed, ReSpaces1(trimmed, ReLit(trimmed, {1}, Keyword.class))) # {}
        ELSE IF language \in {"java", "csharp"}
        THEN ReJavaClass(trimmed)
        ELSE FALSE

isStructureStart(line, language) ==
    isFunctionStart(line, language) \/ isClassStart(line, language)

(***************************************************************************)
(* ContentProcessor: identity and fingerprint                              *)
(***************************************************************************)
\* generateChunkId with the path left out of the key
generateChunkIdWithoutPath(sourceUrl, path, additional) ==
    [sha256 |-> sourceUrl
                \o (IF additional # <<>> THEN <<":">> \o additional ELSE <<>>),
     suffix |-> <<>>]

\* sha256 of the key, first 16 hex digits: the hash is kept symbolic, as
\* the string it is computed from (additional is <<>> when absent or empty)
generateChunkId(sourceUrl, path, additional) ==
    [sha256 |-> sourceUrl \o <<":">> \o path
                \o (IF additional # <<>> THEN <<":">> \o additional ELSE <<>>),
     suffix |-> <<>>]

\* `${baseInfo.id}_${index}`
IdWithIndex(id, index) ==
    [id EXCEPT !.suffix = @ \o <<"_">> \o ToDecimal(index)]

\* `${baseInfo.id}_${startLine}_${endLine}`
IdWithLines(id, startLine, endLine) ==
    [id EXCEPT !.suffix = @ \o <<"_">> \o ToDecimal(startLine) \o <<"_">> \o ToDecimal(endLine)]

\* md5 of the content, kept symbolic
generateContentHash(content) == [md5 |-> content]

(***************************************************************************)
(* ContentProcessor: chunk construction.  A chunk is the ContentChunk of   *)
(* the source; an absent optional string is Undefined, an absent           *)
(* headingLevel is 0.  span is an auxiliary value, not a field of the      *)
(* source: the 0-based first and last input line the content was taken     *)
(* from (<<0, -1>> where the splitter does not work on a line range).      *)
(***************************************************************************)
NoSpan == <<0, -1>>

GitHubChunk(id, content, baseInfo, size, section, headingLevel, span) ==
    [id       |-> id,
     content  |-> content,
     type     |-> baseInfo.type,
     source   |-> [url |-> baseInfo.sourceUrl, type |-> "github",
                   path |-> baseInfo.sourcePath, title |-> Undefined],
     metadata |-> [language |-> baseInfo.language, size |-> size,
                   hash |-> generateContentHash(content),
                   section |-> section, headingLevel |-> headingLevel],
     span     |-> span]

DocumentationChunk(id, content, baseInfo, section) ==
    [id       |-> id,
     content  |-> content,
     type     |-> baseInfo.type,
     source   |-> [url |-> baseInfo.sourceUrl, type |-> "documentation",
                   path |-> baseInfo.sourcePath, title |-> baseInfo.sourceTitle],
     metadata |-> [language |-> Undefined, size |-> Len(content),
                   hash |-> generateContentHash(content),
                   section |-> section, headingLevel |-> 0],
     span     |-> NoSpan]

\* WholeChunk with the content trimmed before it is stored
WholeChunkTrimmed(content, baseInfo) ==
    GitHubChunk(baseInfo.id, Trim(content), baseInfo, baseInfo.size, Undefined, 0, NoSpan)

\* the single chunk of the fast path of chunkCodeContent and chunkTextContent
WholeChunk(content, baseInfo) ==
    GitHubChunk(baseInfo.id, content, baseInfo, baseInfo.size, Undefined, 0, NoSpan)

createTextChunk(content, baseInfo, index) ==
    GitHubChunk(IdWithIndex(baseInfo.id, index), content, baseInfo, Len(content),
                Undefined, 0, NoSpan)

(***************************************************************************)
(* extractDependencies: the capture groups of the import / require         *)
(* patterns.  A match is [found, text]: text is the captured group.        *)
(***************************************************************************)
IsQuote(c) == c \in {"'", "\""}

\* ([^'"]+)['"] at position q: the group, and the position after the closing quote
QuotedFrom(t, q) ==
    LET ends == {e \in q..Len(t) : IsQuote(t[e])}
    IN  IF ends = {} THEN [found |-> FALSE, text |-> <<>>, next |-> 0]
        ELSE IF SetMin(ends) = q THEN [found |-> FALSE, text |-> <<>>, next |-> 0]
        ELSE [found |-> TRUE, text |-> SubSeq(t, q, SetMin(ends) - 1),
              next |-> SetMin(ends) + 1]

\* /^import\s+.*\s+from\s+['"]([^'"]+)['"]/ : the greedy .* takes the last
\* ' from ' that a quoted group follows
ReImport(t) ==
    LET p1 == ReSpaces1(t, ReLit(t, {1}, <<"i","m","p","o","r","t">>))
        p2 == ReSpaces1(t, ReLit(t, ReSpaces1(t, ReAny0(t, p1)), <<"f","r","o","m">>))
        valid == {q \in ReAlt(t, p2, {<<"'">>, <<"\"">>}) : QuotedFrom(t, q).found}
    IN  IF valid = {} THEN [found |-> FALSE, text |-> <<>>]
        ELSE [found |-> TRUE, text |-> QuotedFrom(t, SetMax(valid)).text]

\* /require\s*\(\s*['"]([^'"]+)['"]\s*\)/ : the leftmost match
ReRequire(t) ==
    LET quotes(p) == ReAlt(t, ReSpaces0(t, ReLit(t, ReSpaces0(t, ReLit(t, {p}, <<"r","e","q","u","i","r","e">>)), <<"(">>)),
                           {<<"'">>, <<"\"">>})
        closed(q) == IF QuotedFrom(t, q).found
                     THEN ReLit(t, ReSpaces0(t, {QuotedFrom(t, q).next}), <<")">>) # {}
                     ELSE FALSE
        starts == {p \in 1..Len(t) : \E q \in quotes(p) : closed(q)}
    IN  IF starts = {} THEN [found |-> FALSE, text |-> <<>>]
        ELSE [found |-> TRUE,
              text |-> QuotedFrom(t, CHOOSE q \in quotes(SetMin(starts)) : closed(q)).text]

\* /^(?:from\s+(\S+)\s+import|import\s+(\S+))/ : group 1 or group 2
RePyImport(t) ==
    LET word(s) == SubSeq(t, s, SetMax({e \in s..Len(t) : \A k \in s..e : ~IsSpace(t[k])}))
        afterFrom == ReSpaces1(t, ReLit(t, {1}, <<"f","r","o","m">>))
        afterImport == ReSpaces1(t, ReLit(t, {1}, <<"i","m","p","o","r","t">>))
        group(after) == IF after = {} THEN <<>>
                        ELSE IF SetMax(after) > Len(t) THEN <<>>
                        ELSE word(SetMax(after))
        fromImport == IF group(afterFrom) = <<>> THEN FALSE
                      ELSE ReLit(t, ReSpaces1(t, {SetMax(afterFrom) + Len(group(afterFrom))}),
                                 <<"i","m","p","o","r","t">>) # {}
    IN  IF fromImport THEN [found |-> TRUE, text |-> group(afterFrom)]
        ELSE IF group(afterImport) # <<>> THEN [found |-> TRUE, text |-> group(afterImport)]
        ELSE [found |-> FALSE, text |-> <<>>]

\* only the first 50 lines are checked; [...new Set(dependencies)] keeps the
\* first occurrence of each
extractDependencies(content, language) ==
    LET lines == Slice(SplitLines(content), 0, 50)
        found(line) ==
            LET trimmed == Trim(line)
            IN  IF language \in {"typescript", "javascript"}
                THEN IF ReImport(trimmed).found THEN <<ReImport(trimmed).text>>
                     ELSE IF ReRequire(trimmed).found THEN <<ReRequire(trimmed).text>>
                     ELSE <<>>
                ELSE IF language = "python"
                THEN IF RePyImport(trimmed).found THEN <<RePyImport(trimmed).text>> ELSE <<>>
                ELSE <<>>
        RECURSIVE collect(_, _)
        collect(i, dependencies) ==
            IF i > Len(lines) THEN dependencies
            ELSE collect(i + 1, dependencies \o found(lines[i]))
        RECURSIVE unique(_, _)
        unique(deps, acc) ==
            IF deps = <<>> THEN acc
            ELSE unique(Tail(deps),
                        IF \E k \in 1..Len(acc) : acc[k] = Head(deps) THEN acc
                        ELSE Append(acc, Head(deps)))
    IN  unique(collect(1, <<>>), <<>>)

\* the chunk of addCodeChunk: its metadata carries the dependencies of its content
CodeChunk(ls, baseInfo, startLine, endLine) ==
    LET content == JoinLines(ls)
        chunk == GitHubChunk(IdWithLines(baseInfo.id, startLine, endLine), content,
                             baseInfo, Len(content), Undefined, 0, <<startLine, endLine>>)
    IN  [chunk EXCEPT !.metadata =
            [dependencies |-> extractDependencies(content, baseInfo.language)] @@ @]

\* addCodeChunk with the emptiness test off by one: it drops one-character chunks too
addCodeChunkDropsShort(cs, ls, baseInfo, startLine, endLine) ==
    LET content == JoinLines(ls)
    IN  IF Len(Trim(content)) <= 1 THEN cs
        ELSE Append(cs, CodeChunk(ls, baseInfo, startLine, endLine))

addCodeChunk(cs, ls, baseInfo, startLine, endLine) ==
    LET content == JoinLines(ls)
    IN  IF Len(Trim(content)) = 0 THEN cs
        ELSE Append(cs, CodeChunk(ls, baseInfo, startLine, endLine))

(***************************************************************************)
(* chunkByCodeStructure                                                    *)
(***************************************************************************)
CountChar(line, c) == Cardinality({k \in 1..Len(line) : line[k] = c})

\* detect function/method/class starts; `pushed` is currentChunk with the
\* line pushed and braceLevel the level after the line
CodeStructureStart(baseInfo, i, line, pushed, braceLevel, st) ==
    IF isStructureStart(line, baseInfo.language)
    THEN [chunks |-> IF Len(pushed) > 1
                     THEN addCodeChunk(st.chunks, Slice(pushed, 0, Len(pushed) - 1),
                                       baseInfo, st.chunkStart, i - 1)
                     ELSE st.chunks,
          currentChunk |-> <<line>>,
          chunkStart |-> i,
          braceLevel |-> braceLevel,
          inFunction |-> isFunctionStart(line, baseInfo.language),
          inClass |-> isClassStart(line, baseInfo.language)]
    ELSE [st EXCEPT !.currentChunk = pushed, !.braceLevel = braceLevel]

\* end of function/class when braces return to base level
CodeStructureEnd(baseInfo, i, line, st) ==
    IF (st.inFunction \/ st.inClass) /\ st.braceLevel = 0 /\ EndsWith(Trim(line), <<"}">>)
    THEN [st EXCEPT !.chunks = addCodeChunk(st.chunks, st.currentChunk, baseInfo,
                                             st.chunkStart, i),
                    !.currentChunk = <<>>,
                    !.chunkStart = i + 1,
                    !.inFunction = FALSE,
                    !.inClass = FALSE]
    ELSE st

\* if chunk gets too large, force split
CodeStructureForceSplit(baseInfo, i, st) ==
    IF Len(JoinLines(st.currentChunk)) > maxChunkSize
    THEN [st EXCEPT !.chunks = addCodeChunk(st.chunks, st.currentChunk, baseInfo,
                                             st.chunkStart, i),
                    !.currentChunk = <<>>,
                    !.chunkStart = i + 1]
    ELSE st

\* one iteration of the loop over the lines, for the 0-based line index i
CodeStructureStep(lines, baseInfo, i, st) ==
    CodeStructureForceSplit(baseInfo, i,
        CodeStructureEnd(baseInfo, i, lines[i + 1],
            CodeStructureStart(baseInfo, i, lines[i + 1],
                Append(st.currentChunk, lines[i + 1]),
                st.braceLevel + CountChar(lines[i + 1], "{") - CountChar(lines[i + 1], "}"),
                st)))

RECURSIVE CodeStructureLoop(_, _, _, _)
CodeStructureLoop(lines, baseInfo, i, st) ==
    IF i >= Len(lines) THEN st
    ELSE CodeStructureLoop(lines, baseInfo, i + 1, CodeStructureStep(lines, baseInfo, i, st))

\* add remaining content
CodeStructureFlush(baseInfo, lastLine, st) ==
    IF Len(st.currentChunk) > 0
    THEN addCodeChunk(st.chunks, st.currentChunk, baseInfo, st.chunkStart, lastLine)
    ELSE st.chunks

CodeStructureLines(lines, baseInfo) ==
    CodeStructureFlush(baseInfo, Len(lines) - 1,
        CodeStructureLoop(lines, baseInfo, 0,
            [chunks |-> <<>>, currentChunk |-> <<>>, chunkStart |-> 0,
             braceLevel |-> 0, inFunction |-> FALSE, inClass |-> FALSE]))

chunkByCodeStructure(content, baseInfo) == CodeStructureLines(SplitLines(content), baseInfo)

(***************************************************************************)
(* chunkByLines                                                            *)
(***************************************************************************)
LookBack == 10
CharsPerLine == 20

isNaturalBreak(l) ==
    LET line == Trim(l)
    IN  \/ line = <<>>
        \/ line = <<"}">>
        \/ EndsWith(line, <<";">>)
        \/ StartsWith(line, <<"/", "/">>)
        \/ StartsWith(line, <<"/", "*">>)
        \/ StartsWith(line, <<"*">>)
        \/ \E w \in {Keyword.export, Keyword.import, Keyword.const, Keyword.let,
                     Keyword.var, Keyword.function, Keyword.class, Keyword.interface} :
                  StartsWith(line, w)

\* the 0-based index of the line to cut after
findNaturalBreakPoint(ls) ==
    LET good == {i \in Max2(0, Len(ls) - LookBack)..(Len(ls) - 1) : isNaturalBreak(ls[i + 1])}
    IN  IF good # {} THEN SetMax(good) ELSE Len(ls) - 1

\* the cut of currentLines after the line breakPoint; st.first is auxiliary:
\* the 0-based input line index of currentLines[0]
LinesCut(baseInfo, currentLines, breakPoint, st) ==
    LET chunkContent == JoinLines(Slice(currentLines, 0, breakPoint + 1))
        overlapStart == Max2(0, breakPoint + 1 - (chunkOverlap \div CharsPerLine))
    IN  [chunks |-> Append(st.chunks,
               GitHubChunk(IdWithIndex(baseInfo.id, st.chunkIndex), chunkContent,
                           baseInfo, Len(chunkContent), Undefined, 0,
                           <<st.first, st.first + breakPoint>>)),
         chunkIndex |-> st.chunkIndex + 1,
         currentLines |-> Slice(currentLines, overlapStart, Len(currentLines)),
         first |-> st.first + overlapStart]

\* check if adding this line would exceed chunk size
LinesPushed(baseInfo, currentLines, st) ==
    IF Len(JoinLines(currentLines)) >= maxChunkSize
    THEN LinesCut(baseInfo, currentLines, findNaturalBreakPoint(currentLines), st)
    ELSE [st EXCEPT !.currentLines = currentLines]

\* one iteration of the loop
LinesStep(baseInfo, line, st) == LinesPushed(baseInfo, Append(st.currentLines, line), st)

RECURSIVE LinesLoop(_, _, _, _)
LinesLoop(lines, baseInfo, i, st) ==
    IF i >= Len(lines) THEN st
    ELSE LinesLoop(lines, baseInfo, i + 1, LinesStep(baseInfo, lines[i + 1], st))

\* add remaining lines
LinesFlush(baseInfo, lastLine, st) ==
    IF Len(st.currentLines) > 0
    THEN LET chunkContent == JoinLines(st.currentLines)
         IN  Append(st.chunks,
                    GitHubChunk(IdWithIndex(baseInfo.id, st.chunkIndex), chunkContent,
                                baseInfo, Len(chunkContent), Undefined, 0,
                                <<st.first, lastLine>>))
    ELSE st.chunks

chunkByLines(content, lines, baseInfo) ==
    LinesFlush(baseInfo, Len(lines) - 1,
        LinesLoop(lines, baseInfo, 0,
            [chunks |-> <<>>, chunkIndex |-> 0, currentLines |-> <<>>, first |-> 0]))

(***************************************************************************)
(* chunkCodeContent                                                        *)
(***************************************************************************)
\* the structural chunks if there are any, else the chunks of chunkByLines
StructuralOrLines(structuralChunks, content, baseInfo) ==
    IF Len(structuralChunks) > 0 THEN structuralChunks
    ELSE chunkByLines(content, SplitLines(content), baseInfo)

chunkCodeContent(content, baseInfo) ==
    \* for small files, return as single chunk
    IF Len(content) <= maxChunkSize THEN <<WholeChunk(content, baseInfo)>>
    ELSE StructuralOrLines(IF supportsStructuralChunking(baseInfo.language)
                           THEN chunkByCodeStructure(content, baseInfo)
                           ELSE <<>>,
                           content, baseInfo)

(***************************************************************************)
(* chunkTextContent, splitLongText, findTextBreakPoint                     *)
(***************************************************************************)
\* content.split(/\n\s*\n/): the separator is the leftmost newline followed
\* by whitespace up to the last newline of that whitespace run
RECURSIVE SplitParagraphs(_)
SplitParagraphs(s) ==
    LET closes(p) == {q \in (p + 1)..Len(s) :
                        s[q] = NL /\ \A k \in (p + 1)..(q - 1) : IsSpace(s[k])}
        opens == {p \in 1..Len(s) : s[p] = NL /\ closes(p) # {}}
    IN  IF opens = {} THEN <<s>>
        ELSE LET p == SetMin(opens)
                 q == SetMax(closes(p))
             IN  <<SubSeq(s, 1, p - 1)>> \o SplitParagraphs(SubSeq(s, q + 1, Len(s)))

\* text[i] for a 0-based index i, Undefined outside the string
CharAt(text, i) == IF i >= 0 /\ i < Len(text) THEN text[i + 1] ELSE "undefined"

\* i > start + maxEnd * 0.8 is 10 i > 10 start + 8 maxEnd, in integers
findTextBreakPoint(text, start, maxEnd) ==
    LET sentence == {i \in 0..(maxEnd - 1) :
                        /\ 10 * i > 10 * start + 8 * maxEnd
                        /\ CharAt(text, i) \in {".", "!", "?"}
                        /\ CharAt(text, i + 1) \in {" ", NL}}
        word == {i \in 0..(maxEnd - 1) :
                        /\ 10 * i > 10 * start + 9 * maxEnd
                        /\ CharAt(text, i) \in {" ", NL}}
    IN  IF sentence # {} THEN SetMax(sentence) + 1
        ELSE IF word # {} THEN SetMax(word)
        ELSE maxEnd

\* the while loop of splitLongText from window start `start`; `seen` holds
\* the earlier window starts.  The loop does not terminate when a window
\* start comes back, or when the windows lie before the text and move left.
\* starts: the window starts the loop went through.
RECURSIVE SplitLongLoop(_, _, _, _, _)

\* the window is cut at breakPoint and the next one starts chunkOverlap before
SplitLongCut(text, maxSize, start, breakPoint, acc, seen) ==
    IF \/ (breakPoint - chunkOverlap) \in seen \cup {start}
       \/ (breakPoint - chunkOverlap + maxSize <= 0 /\ chunkOverlap >= maxSize)
    THEN [chunks |-> Append(acc, Substring(text, start, breakPoint)), diverged |-> TRUE,
          starts |-> seen \cup {start}]
    ELSE SplitLongLoop(text, maxSize, breakPoint - chunkOverlap,
                       Append(acc, Substring(text, start, breakPoint)), seen \cup {start})

SplitLongLoop(text, maxSize, start, acc, seen) ==
    IF ~(start < Len(text)) THEN [chunks |-> acc, diverged |-> FALSE, starts |-> seen]
    ELSE IF start + maxSize >= Len(text)
    THEN [chunks |-> Append(acc, Substring(text, start, Len(text))), diverged |-> FALSE,
          starts |-> seen \cup {start}]
    ELSE SplitLongCut(text, maxSize, start,
                      findTextBreakPoint(text, start, start + maxSize), acc, seen)

splitLongText(text, maxSize) == SplitLongLoop(text, maxSize, 0, <<>>, {})

RECURSIVE PushTextChunks(_, _, _, _)
PushTextChunks(cs, subChunks, baseInfo, index) ==
    IF subChunks = <<>> THEN cs
    ELSE PushTextChunks(Append(cs, createTextChunk(Head(subChunks), baseInfo, index)),
                        Tail(subChunks), baseInfo, index + 1)

\* the chunk in progress is emitted, if there is one
TextFlush(baseInfo, st) ==
    IF st.currentChunk # <<>>
    THEN [st EXCEPT !.chunks = Append(@, createTextChunk(st.currentChunk, baseInfo,
                                                          st.chunkIndex)),
                    !.chunkIndex = @ + 1]
    ELSE st

\* the sub-chunks of an oversized paragraph are emitted
TextPushSplit(baseInfo, sub, st) ==
    [chunks |-> PushTextChunks(st.chunks, sub.chunks, baseInfo, st.chunkIndex),
     chunkIndex |-> st.chunkIndex + Len(sub.chunks),
     currentChunk |-> <<>>,
     diverged |-> st.diverged \/ sub.diverged]

\* handle oversized paragraphs
TextPlace(baseInfo, paragraph, st) ==
    IF Len(paragraph) > maxChunkSize
    THEN TextPushSplit(baseInfo, splitLongText(paragraph, maxChunkSize), st)
    ELSE [st EXCEPT !.currentChunk = paragraph]

\* one iteration of the loop over the paragraphs
TextStep(baseInfo, paragraph, st) ==
    IF Len(st.currentChunk) + Len(paragraph) + chunkOverlap <= maxChunkSize
    THEN [st EXCEPT !.currentChunk =
              @ \o (IF @ # <<>> THEN <<NL, NL>> ELSE <<>>) \o paragraph]
    ELSE TextPlace(baseInfo, paragraph, TextFlush(baseInfo, st))

RECURSIVE TextLoop(_, _, _, _)
TextLoop(paragraphs, baseInfo, i, st) ==
    IF i > Len(paragraphs) \/ st.diverged THEN st
    ELSE TextLoop(paragraphs, baseInfo, i + 1, TextStep(baseInfo, paragraphs[i], st))

\* the remaining chunk is emitted
TextFinish(baseInfo, st) ==
    [chunks |-> TextFlush(baseInfo, st).chunks, diverged |-> st.diverged]

\* [chunks, diverged]: the chunks returned, or diverged when the call hangs
TextContentRun(content, baseInfo) ==
    IF Len(content) <= maxChunkSize
    THEN [chunks |-> <<WholeChunk(content, baseInfo)>>, diverged |-> FALSE]
    ELSE TextFinish(baseInfo,
             TextLoop(SplitParagraphs(content), baseInfo, 1,
                 [chunks |-> <<>>, chunkIndex |-> 0, currentChunk |-> <<>>,
                  diverged |-> FALSE]))

chunkTextContent(content, baseInfo) == TextContentRun(content, baseInfo).chunks

(***************************************************************************)
(* chunkMarkdownContent                                                    *)
(***************************************************************************)
\* line.match(/^(#{1,6})\s+(.+)$/): [matched, level, text], level the length
\* of group 1 and text group 2.  \s+ is greedy, and gives back whitespace
\* that (.+) needs; (.+) does not match a line terminator.
headingMatch(line) ==
    LET hashes == IF \E k \in 1..Len(line) : line[k] # "#"
                  THEN SetMin({k \in 1..Len(line) : line[k] # "#"}) - 1
                  ELSE Len(line)
        \* j: number of whitespace characters taken by \s+
        takes == {j \in 1..(Len(line) - hashes - 1) :
                    /\ \A k \in (hashes + 1)..(hashes + j) : IsSpace(line[k])
                    /\ \A k \in (hashes + j + 1)..Len(line) : IsDot(line[k])}
    IN  IF hashes >= 1 /\ hashes <= 6 /\ takes # {}
        THEN [matched |-> TRUE, level |-> hashes,
              text |-> SubSeq(line, hashes + SetMax(takes) + 1, Len(line))]
        ELSE [matched |-> FALSE, level |-> 0, text |-> <<>>]

\* a heading line: save previous chunk and start a new one
MarkdownHeading(baseInfo, line, m, st) ==
    LET saved == IF Len(st.currentChunk) > 0
                 THEN LET chunkContent == JoinLines(st.currentChunk)
                      IN  [st EXCEPT
                            !.chunks = Append(@,
                               GitHubChunk(IdWithIndex(baseInfo.id, st.chunkIndex),
                                           chunkContent, baseInfo, Len(chunkContent),
                                           st.currentHeading, m.level, NoSpan)),
                            !.chunkIndex = @ + 1]
                 ELSE st
    IN  [saved EXCEPT !.currentHeading = m.text, !.currentChunk = <<line>>]

\* another line: if chunk gets too large, force split
MarkdownLine(baseInfo, currentChunk, st) ==
    LET chunkContent == JoinLines(currentChunk)
    IN  IF Len(chunkContent) > maxChunkSize
        THEN [st EXCEPT
                !.chunks = Append(@,
                   GitHubChunk(IdWithIndex(baseInfo.id, st.chunkIndex), chunkContent,
                               baseInfo, Len(chunkContent), st.currentHeading, 0,
                               NoSpan)),
                !.chunkIndex = @ + 1,
                !.currentChunk = <<>>]
        ELSE [st EXCEPT !.currentChunk = currentChunk]

MarkdownMatched(baseInfo, line, m, st) ==
    IF m.matched THEN MarkdownHeading(baseInfo, line, m, st)
    ELSE MarkdownLine(baseInfo, Append(st.currentChunk, line), st)

\* one iteration of the loop over the lines
MarkdownStep(baseInfo, line, st) == MarkdownMatched(baseInfo, line, headingMatch(line), st)

RECURSIVE MarkdownLoop(_, _, _, _)
MarkdownLoop(lines, baseInfo, i, st) ==
    IF i > Len(lines) THEN st
    ELSE MarkdownLoop(lines, baseInfo, i + 1, MarkdownStep(baseInfo, lines[i], st))

\* add remaining content
MarkdownFlush(baseInfo, st) ==
    IF Len(st.currentChunk) > 0
    THEN LET chunkContent == JoinLines(st.currentChunk)
         IN  Append(st.chunks,
                    GitHubChunk(IdWithIndex(baseInfo.id, st.chunkIndex), chunkContent,
                                baseInfo, Len(chunkContent), st.currentHeading, 0, NoSpan))
    ELSE st.chunks

\* chunkMarkdownContent without the flush of the remaining content
chunkMarkdownContentNoFlush(content, baseInfo) ==
    MarkdownLoop(SplitLines(content), baseInfo, 1,
                [chunks |-> <<>>, currentChunk |-> <<>>, currentHeading |-> <<>>,
                 chunkIndex |-> 0]).chunks

chunkMarkdownContent(content, baseInfo) ==
    MarkdownFlush(baseInfo,
        MarkdownLoop(SplitLines(content), baseInfo, 1,
            [chunks |-> <<>>, currentChunk |-> <<>>, currentHeading |-> <<>>,
             chunkIndex |-> 0]))

(***************************************************************************)
(* chunkByHeadings                                                         *)
(***************************************************************************)
MinSectionLength == 50

\* headings.find(...): [found, heading]; a heading that is the empty string
\* is found and then counts as false in `matchedHeading && ...`
findHeading(headings, trimmedLine) ==
    LET hits == {k \in 1..Len(headings) :
                    \/ trimmedLine = headings[k]
                    \/ EndsWith(trimmedLine, headings[k])
                    \/ Includes(headings[k], trimmedLine)}
    IN  IF hits = {} THEN [found |-> FALSE, heading |-> Undefined]
        ELSE [found |-> headings[SetMin(hits)] # <<>>, heading |-> headings[SetMin(hits)]]

\* a line that matches a heading: save previous section, only meaningful chunks
HeadingsSection(baseInfo, line, matchedHeading, st) ==
    LET chunkContent == JoinLines(st.currentChunk)
        saved == IF Len(Trim(chunkContent)) > MinSectionLength
                 THEN [st EXCEPT
                         !.chunks = Append(@,
                            DocumentationChunk(IdWithIndex(baseInfo.id, st.chunkIndex),
                                               chunkContent, baseInfo,
                                               st.currentHeading)),
                         !.chunkIndex = @ + 1]
                 ELSE st
    IN  [saved EXCEPT !.currentHeading = matchedHeading.heading,
                      !.currentChunk = <<line>>]

\* another line: if chunk gets too large, force split
HeadingsLine(baseInfo, currentChunk, st) ==
    LET chunkContent == JoinLines(currentChunk)
    IN  IF Len(chunkContent) > maxChunkSize
        THEN [st EXCEPT
                !.chunks = Append(@,
                   DocumentationChunk(IdWithIndex(baseInfo.id, st.chunkIndex),
                                      chunkContent, baseInfo, st.currentHeading)),
                !.chunkIndex = @ + 1,
                !.currentChunk = <<>>]
        ELSE [st EXCEPT !.currentChunk = currentChunk]

HeadingsMatched(baseInfo, line, matchedHeading, st) ==
    IF matchedHeading.found /\ Len(st.currentChunk) > 0
    THEN HeadingsSection(baseInfo, line, matchedHeading, st)
    ELSE HeadingsLine(baseInfo, Append(st.currentChunk, line), st)

\* one iteration of the loop over the lines
HeadingsStep(headings, baseInfo, line, st) ==
    HeadingsMatched(baseInfo, line, findHeading(headings, Trim(line)), st)

RECURSIVE HeadingsLoop(_, _, _, _, _)
HeadingsLoop(lines, headings, baseInfo, i, st) ==
    IF i > Len(lines) THEN st
    ELSE HeadingsLoop(lines, headings, baseInfo, i + 1,
                      HeadingsStep(headings, baseInfo, lines[i], st))

\* add remaining content
HeadingsFlush(baseInfo, st) ==
    LET chunkContent == JoinLines(st.currentChunk)
    IN  IF Len(st.currentChunk) > 0 /\ Len(Trim(chunkContent)) > MinSectionLength
        THEN Append(st.chunks,
                    DocumentationChunk(IdWithIndex(baseInfo.id, st.chunkIndex),
                                       chunkContent, baseInfo, st.currentHeading))
        ELSE st.chunks

chunkByHeadings(content, headings, baseInfo) ==
    IF Len(headings) = 0 THEN <<>>
    ELSE HeadingsFlush(baseInfo,
             HeadingsLoop(SplitLines(content), headings, baseInfo, 1,
                 [chunks |-> <<>>, currentChunk |-> <<>>, currentHeading |-> <<>>,
                  chunkIndex |-> 0]))

(***************************************************************************)
(* chunkGitHubFile, chunkDocumentationPage                                 *)
(***************************************************************************)
GitHubBaseInfo(file, sourceUrl, type, language) ==
    [id |-> generateChunkId(sourceUrl, file.path, file.sha),
     sourceUrl |-> sourceUrl, sourcePath |-> file.path, sourceTitle |-> Undefined,
     type |-> type, language |-> language, size |-> file.size]

\* [chunks, diverged]
GitHubFileRun(file, sourceUrl) ==
    IF determineFileType(file.path, file.language) = "readme"
    THEN [chunks |-> chunkMarkdownContent(file.content,
                        GitHubBaseInfo(file, sourceUrl, "readme", "markdown")),
          diverged |-> FALSE]
    ELSE IF isCodeFile(file.language)
    THEN [chunks |-> chunkCodeContent(file.content,
                        GitHubBaseInfo(file, sourceUrl, "code", file.language)),
          diverged |-> FALSE]
    ELSE \* for other files, treat as text
         TextContentRun(file.content, GitHubBaseInfo(file, sourceUrl, "code", file.language))

chunkGitHubFile(file, sourceUrl) == GitHubFileRun(file, sourceUrl).chunks

PageBaseInfo(page, sourceUrl) ==
    [id |-> generateChunkId(sourceUrl, page.url, <<>>),
     sourceUrl |-> sourceUrl, sourcePath |-> page.url, sourceTitle |-> page.title,
     type |-> "documentation", language |-> Undefined, size |-> Len(page.content)]

\* the heading chunks if there are any, else regular text chunking
HeadingsOrText(headingChunks, page, baseChunkInfo) ==
    IF Len(headingChunks) > 0
    THEN [chunks |-> headingChunks, diverged |-> FALSE]
    ELSE TextContentRun(page.content, baseChunkInfo)

\* [chunks, diverged]: try to chunk by headings first
DocumentationPageRun(page, sourceUrl) ==
    HeadingsOrText(chunkByHeadings(page.content, page.headings, PageBaseInfo(page, sourceUrl)),
                   page, PageBaseInfo(page, sourceUrl))

chunkDocumentationPage(page, sourceUrl) == DocumentationPageRun(page, sourceUrl).chunks

(***************************************************************************)
(* OpenRAGClient: the ranker.  A score is kept exactly, as the numerator   *)
(* of a fraction over ScoreDen(query): the raw score is in hundredths, and *)
(* every boost multiplies the numerator by its own numerator or, when it   *)
(* does not apply, by its denominator.                                     *)
(***************************************************************************)
codeTerms == <<<<"f","u","n","c","t","i","o","n">>, <<"c","l","a","s","s">>, <<"m","e","t","h","o","d">>, <<"i","m","p","l","e","m","e","n","t","a","t","i","o","n">>, <<"c","o","d","e">>, <<"a","p","i">>, <<"l","i","b","r","a","r","y">>>>
questionWords == <<<<"h","o","w">>, <<"w","h","a","t">>, <<"w","h","y">>, <<"w","h","e","n">>, <<"w","h","e","r","e">>, <<"g","u","i","d","e">>, <<"t","u","t","o","r","i","a","l">>, <<"d","o","c","u","m","e","n","t","a","t","i","o","n">>>>

LongContent == 500
ShortContent == 100
maxPerSource == 3
ResultFloor == 10

\* String.prototype.split(/\s+/): the pieces between the maximal runs of
\* whitespace (an empty piece before a leading run and after a trailing one)
RECURSIVE SplitSpaces(_)
SplitSpaces(s) ==
    LET ws == {i \in 1..Len(s) : IsSpace(s[i])}
    IN  IF ws = {} THEN <<s>>
        ELSE LET p == SetMin(ws)
                 after == {i \in p..Len(s) : ~IsSpace(s[i])}
                 q == IF after = {} THEN Len(s) + 1 ELSE SetMin(after)
             IN  <<SubSeq(s, 1, p - 1)>> \o SplitSpaces(SubSeq(s, q, Len(s)))

queryWords(q) == SplitSpaces(ToLowerCase(q))

\* the denominator of every adjusted score of one query:
\* 100 (raw) * 10 (length) * 5 (code) * 20 (question) * 10 n (words) * 20 (section)
ScoreDen(q) == 100 * 10 * 5 * 20 * (10 * Len(queryWords(q))) * 20

\* the filter as a function from the filtered metadata fields to the values
\* of their $in lists
buildSearchFilter(opts) ==
    LET bySource == IF "sources" \in DOMAIN opts THEN Len(opts.sources) > 0 ELSE FALSE
        includeCode == IF "includeCode" \in DOMAIN opts THEN opts.includeCode ELSE TRUE
        includeDocumentation == IF "includeDocumentation" \in DOMAIN opts
                                THEN opts.includeDocumentation ELSE TRUE
        includeTypes == (IF includeCode # FALSE THEN {"code", "readme"} ELSE {})
                            \cup (IF includeDocumentation # FALSE THEN {"documentation"} ELSE {})
    IN  [field \in (IF bySource THEN {"sourceUrl"} ELSE {})
                      \cup (IF includeTypes # {} THEN {"type"} ELSE {}) |->
            IF field = "type" THEN includeTypes
            ELSE {opts.sources[k] : k \in 1..Len(opts.sources)}]

\* the vector store returns a match only if each filtered field of its
\* metadata has one of the values of the filter
Admits(filter, match) ==
    \A field \in DOMAIN filter :
        IF "metadata" \notin DOMAIN match THEN FALSE
        ELSE IF field \notin DOMAIN match.metadata THEN FALSE
        ELSE match.metadata[field] \in filter[field]

\* reading a property: undefined when the object does not have it
Get(obj, field) == IF field \in DOMAIN obj THEN obj[field] ELSE Undefined

\* the TypeError that ends search in its catch block (SearchError): metadata
\* of undefined is read in convertToSearchResults, result.content.length of an
\* undefined content in calculateAdjustedScore
SearchThrows(vectorResults) ==
    \E i \in 1..Len(vectorResults) :
        IF "metadata" \notin DOMAIN vectorResults[i] THEN TRUE
        ELSE "content" \notin DOMAIN vectorResults[i].metadata

convertToSearchResults(vectorResults) ==
    [i \in 1..Len(vectorResults) |->
        LET result == vectorResults[i]
        IN  [content  |-> Get(result.metadata, "content"),
             source   |-> [url |-> Get(result.metadata, "sourceUrl"),
                           type |-> IF /\ "type" \in DOMAIN result.metadata
                                       /\ result.metadata.type \in {"code", "readme"}
                                    THEN "github" ELSE "documentation",
                           path |-> Get(result.metadata, "sourcePath"),
                           title |-> Get(result.metadata, "sourceTitle")],
             metadata |-> [language |-> Get(result.metadata, "language"),
                           section |-> Get(result.metadata, "section"),
                           headingLevel |-> IF "headingLevel" \in DOMAIN result.metadata
                                            THEN result.metadata.headingLevel ELSE 0],
             score    |-> result.score]]

\* the adjusted score before the cap, as a numerator over ScoreDen(q)
BoostedScore(result, q) ==
    LET queryLower == ToLowerCase(q)
        contentLower == ToLowerCase(result.content)
        contentLength == Len(result.content)
        \* boost based on content length
        length == IF contentLength > LongContent THEN 11
                  ELSE IF contentLength < ShortContent THEN 9 ELSE 10
        \* boost for code if query or content contains code-related terms
        hasCodeTerms == \E t \in 1..Len(codeTerms) :
                            Includes(queryLower, codeTerms[t]) \/ Includes(contentLower, codeTerms[t])
        code == IF hasCodeTerms /\ result.source.type = "github" THEN 6 ELSE 5
        \* boost for documentation if query contains question words
        hasQuestionWords == \E t \in 1..Len(questionWords) : Includes(queryLower, questionWords[t])
        question == IF hasQuestionWords /\ result.source.type = "documentation" THEN 23 ELSE 20
        \* boost for exact matches: 1 + (exactMatches / queryWords.length) * 0.1
        words == queryWords(q)
        exactMatches == Cardinality({w \in 1..Len(words) : Includes(contentLower, words[w])})
        \* prefer content with a section
        section == IF result.metadata.section # Undefined /\ result.metadata.section # <<>>
                   THEN 21 ELSE 20
    IN  result.score * length * code * question * (10 * Len(words) + exactMatches) * section

\* calculateAdjustedScore without the cap
calculateAdjustedScoreUncapped(result, q) == BoostedScore(result, q)

\* Math.min(score, 1.0)
calculateAdjustedScore(result, q) == Min2(BoostedScore(result, q), ScoreDen(q))

\* Array.prototype.sort((a, b) => b.adjustedScore - a.adjustedScore), stable
RECURSIVE SortByAdjustedScore(_)
SortByAdjustedScore(rs) ==
    IF Len(rs) <= 1 THEN rs
    ELSE LET sorted == SortByAdjustedScore(SubSeq(rs, 1, Len(rs) - 1))
             last == rs[Len(rs)]
             \* the last element goes after every element that is not smaller
             before == {k \in 1..Len(sorted) : sorted[k].adjustedScore >= last.adjustedScore}
             at == IF before = {} THEN 0 ELSE SetMax(before)
         IN  SubSeq(sorted, 1, at) \o <<last>> \o SubSeq(sorted, at + 1, Len(sorted))

\* the number of results of `seq` with the source url `url`
CountUrl(seq, url) == Cardinality({k \in 1..Len(seq) : seq[k].source.url = url})

\* CapPass with <= for <: one result too many per source
RECURSIVE CapPassOneMore(_, _, _)
CapPassOneMore(results, i, diversified) ==
    IF i > Len(results) THEN diversified
    ELSE CapPassOneMore(results, i + 1,
                 IF CountUrl(diversified, results[i].source.url) <= maxPerSource
                 THEN Append(diversified, results[i])
                 ELSE diversified)

\* the first loop of diversifyResults
RECURSIVE CapPass(_, _, _)
CapPass(results, i, diversified) ==
    IF i > Len(results) THEN diversified
    ELSE CapPass(results, i + 1,
                 IF CountUrl(diversified, results[i].source.url) < maxPerSource
                 THEN Append(diversified, results[i])
                 ELSE diversified)

\* ref is the identity of a result object: includes() compares references
IncludesRef(seq, r) == \E k \in 1..Len(seq) : seq[k].ref = r.ref

\* diversifyResults with a backfill that takes the whole excluded pool
diversifyResultsWholePool(results) ==
    LET diversified == CapPass(results, 1, <<>>)
    IN  IF Len(diversified) < Len(results) /\ Len(diversified) < ResultFloor
        THEN diversified \o SelectSeq(results, LAMBDA r : ~IncludesRef(diversified, r))
        ELSE diversified

diversifyResults(results) ==
    LET diversified == CapPass(results, 1, <<>>)
    IN  IF Len(diversified) < Len(results) /\ Len(diversified) < ResultFloor
        THEN LET remaining == SelectSeq(results, LAMBDA r : ~IncludesRef(diversified, r))
                 additionalCount == Min2(Len(remaining), ResultFloor - Len(diversified))
             IN  diversified \o SubSeq(remaining, 1, additionalCount)
        ELSE diversified

\* results.map(result => ({...result, adjustedScore})) and the sort
ScoredResults(results, q) ==
    SortByAdjustedScore(
        [i \in 1..Len(results) |->
            [content |-> results[i].content, source |-> results[i].source,
             metadata |-> results[i].metadata, score |-> results[i].score,
             adjustedScore |-> calculateAdjustedScore(results[i], q),
             ref |-> i]])

\* the sorted list with the adjusted scores (`scored`) and the list returned
\* (`results`): content, source, metadata and score of each diversified result
\* (ref is kept as the identity of the result)
rankAndDiversifyResults(results, q) ==
    LET scoredResults == ScoredResults(results, q)
        diversifiedResults == diversifyResults(scoredResults)
    IN  [scored  |-> scoredResults,
         results |-> [i \in 1..Len(diversifiedResults) |->
                        [content |-> diversifiedResults[i].content,
                         source |-> diversifiedResults[i].source,
                         metadata |-> diversifiedResults[i].metadata,
                         score |-> diversifiedResults[i].score,
                         ref |-> diversifiedResults[i].ref]]]

DefaultMaxLength == 16000

\* formatForAI; a raw score is in hundredths, so (score * 100).toFixed(1) is
\* its digits and ".0"
formatForAI(results, opts) ==
    LET maxLength == IF "maxLength" \in DOMAIN opts THEN opts.maxLength ELSE DefaultMaxLength
        includeCitations == IF "includeCitations" \in DOMAIN opts
                            THEN opts.includeCitations ELSE TRUE
        format == IF "format" \in DOMAIN opts THEN opts.format ELSE "generic"
        titleOrUrl(result) == IF result.source.title \in {Undefined, <<>>}
                              THEN result.source.url ELSE result.source.title
        citation(result) ==
            IF includeCitations
            THEN <<"\n", "\n", "S", "o", "u", "r", "c", "e", ":", " ">> \o titleOrUrl(result)
                    \o <<" ", "(", "S", "c", "o", "r", "e", ":", " ">>
                    \o ToDecimal(result.score) \o <<".", "0", "%", ")">>
            ELSE <<>>
        resultText(result) ==
            result.content \o citation(result) \o <<"\n", "\n", "-", "-", "-", "\n", "\n">>
        RECURSIVE loop(_, _, _)
        \* [text, sources] after the results from the i-th on
        loop(i, formattedText, sources) ==
            IF i > Len(results) THEN [text |-> formattedText, sources |-> sources]
            ELSE IF Len(formattedText) + Len(resultText(results[i])) > maxLength
            THEN [text |-> formattedText, sources |-> sources]
            ELSE loop(i + 1, formattedText \o resultText(results[i]),
                      IF \E k \in 1..Len(sources) : sources[k].url = results[i].source.url
                      THEN sources
                      ELSE Append(sources, [title |-> titleOrUrl(results[i]),
                                            url |-> results[i].source.url,
                                            type |-> results[i].source.type]))
        body == loop(1, <<>>, <<>>)
        styled == IF format = "openai"
                  THEN <<"#", "#", " ", "C", "o", "n", "t", "e", "x", "t", " ", "I", "n", "f",
                         "o", "r", "m", "a", "t", "i", "o", "n", "\n", "\n">> \o body.text
                  ELSE IF format = "claude"
                  THEN <<"<", "c", "o", "n", "t", "e", "x", "t", ">", "\n">> \o body.text
                          \o <<"<", "/", "c", "o", "n", "t", "e", "x", "t", ">">>
                  ELSE body.text
    IN  [text |-> Trim(styled), sources |-> body.sources, characterCount |-> Len(styled)]

(***************************************************************************)
(* Inputs of the segmenter: contents are built from short lines, at most   *)
(* MaxLines of them, drawn from one pool per kind of file; each pool holds *)
(* the lines that drive the splitter of that kind.                         *)
(***************************************************************************)
MaxLines == 3

\* all sequences of 1..n elements of S
RECURSIVE SeqsUpTo(_, _)
SeqsUpTo(S, n) ==
    IF n = 0 THEN {}
    ELSE LET shorter == SeqsUpTo(S, n - 1)
         IN  {<<x>> : x \in S} \cup shorter \cup {Append(q, x) : q \in shorter, x \in S}

Contents(pool, n) == {JoinLines(ls) : ls \in SeqsUpTo(pool, n)}

TypeScriptLines == {<<"l","e","t"," ","f","{">>, <<"x",";">>, <<"}">>, <<>>, <<"c","l","a","s","s"," ","A","{">>}
\* files with an import and a require ahead of a function
ImportingFiles ==
    {JoinLines(<<<<"i","m","p","o","r","t"," ","a"," ","f","r","o","m"," ","'","m","'">>,
                 <<"l","e","t"," ","f","{">>, <<"x",";">>, <<"}">>>>),
     JoinLines(<<<<"r","e","q","u","i","r","e","(","'","m","'",")">>,
                 <<"i","m","p","o","r","t"," ","b"," ","f","r","o","m"," ","\"","m","\"">>,
                 <<"l","e","t"," ","f","{">>, <<"}">>>>)}
\* a function with a local declaration in its body, and a call after it
DeclaringFiles ==
    {JoinLines(<<<<"f","u","n","c","t","i","o","n"," ","f","(",")","{">>,
                 <<"c","o","n","s","t"," ","x"," ","="," ","1">>, <<"}">>,
                 <<"f","(",")",";","f","(",")",";","f","(",")">>>>)}
GoLines == {<<"a",";">>, <<"b","b">>, <<"c","c","c","c","c","c","c","c","c","c">>, <<>>, <<"}">>}
\* the readme of four lines: a heading and a subheading, with a line of text each
ScenarioReadme == <<"#"," ","A","\n","f","o","o","\n","#","#"," ","B","\n","b","a","r">>
ReadmeLines == {<<"#"," ","A">>, <<"f","o","o">>, <<"#","#"," ","B">>, <<"b","a","r">>, <<>>}
TextLines == {<<"a","a","a","a","a","a","a","a","a","a","a","a","a","a","a","a","a","."," ","b","b","b","b","b","b","b">>, <<"c","c"," ","d","d">>, <<>>, <<" ">>, <<"z","z","z","z","z","z","z","z","z","z","z","z","z","z","z","z","z","z","z"," ","y","y","y","y">>}
LongLine == [i \in 1..52 |-> "x"]
PageLines == {<<"I","n","t","r","o">>, <<"M","y"," ","I","n","t","r","o">>, <<"I","n">>, <<>>, LongLine}
PageHeadings == {<<>>, <<<<"I","n","t","r","o">>>>}

RepoUrl == <<"r">>
SiteUrl == <<"d">>
Sha == <<"9","f">>

\* [language, path, lines, more, configs] for the kinds of repository file:
\* the contents are up to MaxLines lines of `lines`, and those of `more`
FileKinds ==
    {[language |-> "typescript", path |-> <<"a",".","t","s">>, lines |-> TypeScriptLines, more |-> {},
      configs |-> {[maxChunkSize |-> 8, chunkOverlap |-> 1],
                   [maxChunkSize |-> 12, chunkOverlap |-> 1]}],
     [language |-> "typescript", path |-> <<"i",".","t","s">>, lines |-> {}, more |-> ImportingFiles \cup DeclaringFiles,
      configs |-> {[maxChunkSize |-> 8, chunkOverlap |-> 1],
                   [maxChunkSize |-> 30, chunkOverlap |-> 1]}],
     [language |-> "go", path |-> <<"m",".","g","o">>, lines |-> GoLines, more |-> {},
      configs |-> {[maxChunkSize |-> 8, chunkOverlap |-> 1],
                   [maxChunkSize |-> 12, chunkOverlap |-> 20]}],
     [language |-> "markdown", path |-> <<"R","e","a","d","M","e",".","m","d">>, lines |-> ReadmeLines, more |-> {ScenarioReadme},
      configs |-> {[maxChunkSize |-> 8, chunkOverlap |-> 1],
                   [maxChunkSize |-> 1000, chunkOverlap |-> 200]}],
     [language |-> "markdown", path |-> <<"g",".","m","d">>, lines |-> {}, more |-> {ScenarioReadme, <<"h","i">>},
      configs |-> {[maxChunkSize |-> 8, chunkOverlap |-> 1],
                   [maxChunkSize |-> 1000, chunkOverlap |-> 200]}],
     [language |-> "text", path |-> <<"n",".","t","x","t">>, lines |-> TextLines, more |-> {},
      configs |-> {[maxChunkSize |-> 20, chunkOverlap |-> 2],
                   [maxChunkSize |-> 20, chunkOverlap |-> 19],
                   [maxChunkSize |-> 0, chunkOverlap |-> 0]}]}

PageConfigs == {[maxChunkSize |-> 60, chunkOverlap |-> 2],
                [maxChunkSize |-> 0, chunkOverlap |-> 0]}

\* a second copy of a file or page, under another path
CopyOf(item, kind) ==
    IF kind = "github" THEN [item EXCEPT !.path = <<"b", "/">> \o @]
    ELSE [item EXCEPT !.url = <<"b", "/">> \o @]

\* [config, source]: a repository of one file, or of the file and its copy
GitHubRuns ==
    UNION {{[config |-> c,
             source |-> [kind |-> "github", url |-> RepoUrl, items |-> items]] :
              c \in k.configs,
              items \in UNION {{<<f>>, <<f, CopyOf(f, "github")>>} :
                    f \in {[path |-> k.path, content |-> t, sha |-> Sha, size |-> Len(t),
                            language |-> k.language] : t \in Contents(k.lines, MaxLines) \cup k.more}}} :
           k \in FileKinds}

DocumentationRuns ==
    {[config |-> c,
      source |-> [kind |-> "documentation", url |-> SiteUrl, items |-> items]] :
        c \in PageConfigs,
        items \in UNION {{<<g>>, <<g, CopyOf(g, "documentation")>>} :
              g \in {[url |-> <<"p">>, title |-> <<"T">>, content |-> t, headings |-> h] :
                        t \in Contents(PageLines, MaxLines), h \in PageHeadings}}}

(***************************************************************************)
(* The segmenter as a state machine: processGitHubContent and              *)
(* processDocumentationContent chunk the files / pages of the source one   *)
(* after the other and append the chunks of each.                          *)
(***************************************************************************)
\* the operations started on one client at the same time
MaxCallers == 3
Callers == 1..MaxCallers

\* the client after its constructor: not initialized, no browser (null is 0),
\* no operation started.  launched: the browser instances chromium.launch
\* was asked for; storeInitializations: the calls of vectorStoreService.initialize
NewClient ==
    [initialized |-> FALSE, browser |-> 0, launched |-> {}, storeInitializations |-> 0,
     pc |-> [c \in Callers |-> "idle"]]

rankerVars == <<raw, query, options, scored, ranked, formatOptions, context>>
storeVars == <<embeddings, batch, retries, log>>
\* no indexSource call is under way
StoreIdle == embeddings = <<>> /\ batch = 0 /\ retries = 0 /\ log = <<>>

Init ==
    /\ \E run \in GitHubRuns \cup DocumentationRuns :
          /\ config = run.config
          /\ source = run.source
    /\ done = 0
    /\ chunks = <<>>
    /\ diverged = FALSE
    /\ phase = "index"
    /\ raw = <<>>
    /\ query = <<>>
    /\ options = <<>>
    /\ scored = <<>>
    /\ ranked = <<>>
    /\ formatOptions = <<>>
    /\ context = <<>>
    /\ StoreIdle
    /\ client = NewClient

\* chunks.push(...fileChunks); a call that hangs leaves the run diverged
PushChunks(run) ==
    IF run.diverged
    THEN diverged' = TRUE /\ UNCHANGED <<chunks, done>>
    ELSE /\ chunks' = chunks \o run.chunks
         /\ done' = done + 1
         /\ UNCHANGED diverged

\* one iteration of the loop of processGitHubContent
ProcessGitHubFile ==
    /\ phase = "index"
    /\ source.kind = "github"
    /\ ~diverged
    /\ done < Len(source.items)
    /\ PushChunks(GitHubFileRun(source.items[done + 1], source.url))
    /\ UNCHANGED <<config, source, phase, rankerVars, storeVars, client>>

\* one iteration of the loop of processDocumentationContent
ProcessDocumentationPage ==
    /\ phase = "index"
    /\ source.kind = "documentation"
    /\ ~diverged
    /\ done < Len(source.items)
    /\ PushChunks(DocumentationPageRun(source.items[done + 1], source.url))
    /\ UNCHANGED <<config, source, phase, rankerVars, storeVars, client>>

Next == ProcessGitHubFile \/ ProcessDocumentationPage

Spec == Init /\ [][Next]_vars

(***************************************************************************)
(* The search as a state machine: the vector store answers the query with  *)
(* matches in descending order of raw score, and the client converts,      *)
(* ranks and diversifies them.  The matches are MaxCopies or fewer vectors *)
(* of each of the entries of MatchPool.                                    *)
(***************************************************************************)
MaxCopies == 4

MediumText == [i \in 1..100 |-> "x"]
LongText == [i \in 1..501 |-> IF i <= 4 THEN <<"c", "o", "d", "e">>[i] ELSE "x"]

Match(score, type, url, content, section) ==
    [score |-> score,
     metadata |-> [content |-> content, type |-> type, sourceUrl |-> url,
                   sourcePath |-> <<"f">>, sourceTitle |-> Undefined,
                   language |-> Undefined, section |-> section, headingLevel |-> 0]]

\* in descending order of raw score (in hundredths), one url each
MatchPool ==
    <<Match(95, "code", <<"A">>, <<"a","p","i">>, Undefined),
      Match(90, "documentation", <<"B">>, MediumText, <<"I","n","t","r","o">>),
      Match(85, "readme", <<"C">>, LongText, <<"A">>),
      Match(80, "documentation", <<"D">>, <<"h","o","w"," ","t","o">>, <<>>)>>

\* copies[t] vectors of each entry t, in the order of the pool
RECURSIVE MatchList(_, _)
MatchList(copies, t) ==
    IF t > Len(MatchPool) THEN <<>>
    ELSE [c \in 1..copies[t] |-> MatchPool[t]] \o MatchList(copies, t + 1)

\* matches that lack a part of their metadata: the metadata record itself,
\* its content, or its type, section and language
DefectiveMatches ==
    {[score |-> 75],
     [score |-> 75, metadata |-> [type |-> "code", sourceUrl |-> <<"E">>,
                                  section |-> <<"S">>]],
     [score |-> 75, metadata |-> [content |-> <<"h","o","w">>, sourceUrl |-> <<"E">>]]}

\* the lists of whole matches, and the lists that end with a defective one
MatchLists ==
    {MatchList(copies, 1) : copies \in [1..Len(MatchPool) -> 0..MaxCopies]}
        \cup {SubSeq(MatchPool, 1, n) \o <<d>> : n \in 0..2, d \in DefectiveMatches}

Queries == {<<"H","o","w"," ","a","p","i">>, <<"z","z">>}

\* the options given to formatForAI: none, a format, a small maxLength
FormatOptionSets ==
    {<<>>, [format |-> "openai"], [format |-> "claude"], [maxLength |-> 30],
     [maxLength |-> 30, format |-> "openai", includeCitations |-> FALSE],
     [maxLength |-> 700, format |-> "claude"]}

\* the searches tried: each query with room for every match, and searches
\* that exclude code, documentation, both, or all but two sources
Searches ==
    {[query |-> q, options |-> [maxResults |-> 20]] : q \in Queries}
        \cup {[query |-> <<"z","z">>, options |-> [maxResults |-> 20, includeCode |-> FALSE]],
              [query |-> <<"H","o","w"," ","a","p","i">>,
               options |-> [maxResults |-> 20, includeDocumentation |-> FALSE]],
              [query |-> <<"z","z">>,
               options |-> [sources |-> <<<<"A">>, <<"B">>>>,
                            includeCode |-> FALSE, includeDocumentation |-> FALSE]],
              [query |-> <<"z","z">>,
               options |-> [sources |-> <<<<"C">>, <<"D">>>>, includeCode |-> TRUE]]}

segmenterVars == <<config, source, done, chunks, diverged>>

RankInit ==
    /\ phase = "search"
    /\ \E s \in Searches : query = s.query /\ options = s.options
    /\ raw = <<>>
    /\ scored = <<>>
    /\ ranked = <<>>
    /\ formatOptions = <<>>
    /\ context = <<>>
    /\ config = [maxChunkSize |-> 0, chunkOverlap |-> 0]
    /\ source = [kind |-> "github", url |-> RepoUrl, items |-> <<>>]
    /\ done = 0
    /\ chunks = <<>>
    /\ diverged = FALSE
    /\ StoreIdle
    /\ client = NewClient

\* search: vectorStoreService.queryVectors returns the matches
QueryVectors ==
    /\ phase = "search"
    /\ raw' \in {ms \in MatchLists :
                  \* topK: options.maxResults || 10
                  /\ Len(ms) <= IF "maxResults" \in DOMAIN options THEN options.maxResults
                                ELSE 10
                  /\ \A i \in 1..Len(ms) : Admits(buildSearchFilter(options), ms[i])}
    /\ phase' = "matched"
    /\ UNCHANGED <<query, options, scored, ranked, formatOptions, context, segmenterVars,
                    storeVars, client>>

\* search: convertToSearchResults and rankAndDiversifyResults
RankResults ==
    /\ phase = "matched"
    /\ ~SearchThrows(raw)
    /\ LET rankedResults == rankAndDiversifyResults(convertToSearchResults(raw), query)
       IN  /\ scored' = rankedResults.scored
           /\ ranked' = rankedResults.results
    /\ phase' = "ranked"
    /\ UNCHANGED <<raw, query, options, formatOptions, context, segmenterVars, storeVars, client>>

\* search: the catch block, throw new SearchError
SearchFails ==
    /\ phase = "matched"
    /\ SearchThrows(raw)
    /\ phase' = "failed"
    /\ UNCHANGED <<raw, query, options, scored, ranked, formatOptions, context, segmenterVars,
                    storeVars, client>>

\* the caller hands the results of search to formatForAI
FormatResults ==
    /\ phase = "ranked"
    /\ formatOptions' \in FormatOptionSets
    /\ context' = formatForAI(ranked, formatOptions')
    /\ phase' = "formatted"
    /\ UNCHANGED <<raw, query, options, scored, ranked, segmenterVars, storeVars, client>>

RankNext == QueryVectors \/ RankResults \/ SearchFails \/ FormatResults

RankSpec == RankInit /\ [][RankNext]_vars

(***************************************************************************)
(* indexSource as a state machine: the chunks of the source are embedded   *)
(* batch by batch (EmbeddingService / ScoutEmbeddingService                *)
(* .generateEmbeddings) and the vectors are stored batch by batch          *)
(* (ScoutVectorStoreService.upsertVectors).  The provider and the store    *)
(* answer each request as they please.                                     *)
(***************************************************************************)
DefaultBatchSize == 100
MaxProviderBatch == 100
MaxEmbedLength == 8000
maxRetries == 3

\* config.processing.batchSize || 100
batchSize == IF config.batchSize = 0 THEN DefaultBatchSize ELSE config.batchSize

createBatches(items, size) ==
    [b \in 1..((Len(items) + size - 1) \div size) |->
        SubSeq(items, (b - 1) * size + 1, Min2(b * size, Len(items)))]

\* text.replace(/\s+/g, ' ').trim(), cut to 8000 characters and then to the
\* last sentence end if that lies beyond 80% of them
preprocessText(text) ==
    LET idx == SelectSeq([i \in 1..Len(text) |-> i],
                         LAMBDA i : IF IsSpace(text[i])
                                    THEN (IF i = 1 THEN TRUE ELSE ~IsSpace(text[i - 1]))
                                    ELSE TRUE)
        processed == Trim([k \in 1..Len(idx) |->
                              IF IsSpace(text[idx[k]]) THEN " " ELSE text[idx[k]]])
        cut == Substring(processed, 0, MaxEmbedLength)
        ends == {i \in 1..Len(cut) : cut[i] \in {".", "!", "?"}}
        lastSentenceEnd == IF ends = {} THEN -1 ELSE SetMax(ends) - 1
    IN  IF Len(processed) > MaxEmbedLength
        THEN IF lastSentenceEnd * 10 > MaxEmbedLength * 8
             THEN Substring(cut, 0, lastSentenceEnd + 1) ELSE cut
        ELSE processed

\* the texts that are not empty after trim, with their (1-based) place
validTexts(texts) ==
    LET idx == SelectSeq([i \in 1..Len(texts) |-> i], LAMBDA i : Len(Trim(texts[i])) > 0)
    IN  [k \in 1..Len(idx) |->
            [text |-> preprocessText(texts[idx[k]]), originalIndex |-> idx[k]]]

\* the vector the provider computes for an input
Embedding(input) == <<"embedding">> \o input

\* const texts = chunks.map(chunk => chunk.content)
chunkTexts == [i \in 1..Len(chunks) |-> chunks[i].content]

\* the vectors indexSource hands to upsertVectors (sourceTitle: the repository)
indexVectors ==
    [i \in 1..Len(chunks) |->
        [id |-> chunks[i].id,
         values |-> embeddings[i],
         metadata |-> [content |-> Substring(chunks[i].content, 0, 40000),
                       type |-> chunks[i].type,
                       sourceUrl |-> chunks[i].source.url,
                       sourcePath |-> chunks[i].source.path,
                       sourceTitle |-> IF chunks[i].source.title = Undefined
                                       THEN RepoUrl ELSE chunks[i].source.title,
                       language |-> chunks[i].metadata.language,
                       size |-> chunks[i].metadata.size,
                       hash |-> chunks[i].metadata.hash,
                       headingLevel |-> chunks[i].metadata.headingLevel,
                       section |-> chunks[i].metadata.section,
                       dependencies |->
                           LET RECURSIVE join(_)
                               join(ds) == IF Len(ds) = 1 THEN ds[1]
                                           ELSE ds[1] \o <<",">> \o join(Tail(ds))
                           IN  IF "dependencies" \in DOMAIN chunks[i].metadata
                               THEN IF chunks[i].metadata.dependencies = <<>> THEN Undefined
                                    ELSE IF join(chunks[i].metadata.dependencies) = <<>>
                                    THEN Undefined
                                    ELSE join(chunks[i].metadata.dependencies)
                               ELSE Undefined]]]

\* backoffDelay without the doubling: two seconds before every retry
backoffDelayFixed(retryCount) == 2000

\* 2^retries seconds, in milliseconds
backoffDelay(retryCount) == (2 ^ retryCount) * 1000

processGitHubContent(content) ==
    LET RECURSIVE from(_)
        from(k) == IF k > Len(content.items) THEN <<>>
                   ELSE chunkGitHubFile(content.items[k], content.url) \o from(k + 1)
    IN  from(1)

MaxFiles == 3

\* repositories of 0..MaxFiles small files, some of them empty or blank
IndexSources ==
    LET contents == {<<>>, <<" ">>, <<"a", ";">>, <<"b", " ", " ", "b">>}
    IN  UNION {{[kind |-> "github", url |-> RepoUrl,
                 items |-> SubSeq([k \in 1..n |->
                               [path |-> <<"f">> \o ToDecimal(k), content |-> cs[k],
                                sha |-> Sha, size |-> Len(cs[k]),
                                language |-> "typescript"]], 1, n)] :
                   cs \in [1..n -> contents]} : n \in 0..MaxFiles}

\* indexSource after the repository was fetched and chunked
IndexInit ==
    /\ config \in {[maxChunkSize |-> 0, chunkOverlap |-> 0, batchSize |-> b] : b \in 0..2}
    /\ source \in IndexSources
    /\ done = Len(source.items)
    /\ chunks = processGitHubContent(source)
    /\ diverged = FALSE
    /\ raw = <<>> /\ query = <<>> /\ options = <<>> /\ scored = <<>> /\ ranked = <<>>
    /\ formatOptions = <<>> /\ context = <<>>
    /\ StoreIdle
    /\ client = NewClient
    /\ phase = "chunked"

\* indexSource: no chunk is a failure; generateEmbeddings up to its loop
GenerateEmbeddings ==
    /\ phase = "chunked"
    /\ IF Len(chunks) = 0 THEN phase' = "noContent" /\ UNCHANGED embeddings
       ELSE IF Len(validTexts(chunkTexts)) = 0
       THEN phase' = "embedFailed" /\ UNCHANGED embeddings
       ELSE /\ phase' = "embedding"
            /\ embeddings' = [i \in 1..Len(chunks) |-> Undefined]
    /\ UNCHANGED <<batch, retries, log, segmenterVars, rankerVars, client>>

\* generateEmbeddings: one iteration of the loop over the batches
EmbedBatch ==
    /\ phase = "embedding"
    /\ LET batches == createBatches(validTexts(chunkTexts), Min2(batchSize, MaxProviderBatch))
           items == batches[batch + 1]
       IN  \E response \in {"vectors", "miscounted", "error"} :
              IF response = "vectors"
              THEN /\ embeddings' =
                        [i \in 1..Len(embeddings) |->
                            IF \E j \in 1..Len(items) : items[j].originalIndex = i
                            THEN Embedding(items[CHOOSE j \in 1..Len(items) :
                                                    items[j].originalIndex = i].text)
                            ELSE embeddings[i]]
                   /\ batch' = IF batch + 1 < Len(batches) THEN batch + 1 ELSE 0
                   /\ phase' = IF batch + 1 < Len(batches) THEN "embedding" ELSE "upsert"
              ELSE /\ phase' = "embedFailed"
                   /\ UNCHANGED <<embeddings, batch>>
    /\ UNCHANGED <<retries, log, segmenterVars, rankerVars, client>>

\* upsertVectors: one attempt of the batch at hand, and the wait after a failure
UpsertBatch ==
    /\ phase = "upsert"
    /\ LET batches == createBatches(indexVectors, batchSize)
       IN  \E ok \in BOOLEAN :
              IF ok
              THEN /\ log' = Append(log, [batch |-> batch, attempt |-> retries + 1,
                                          ok |-> TRUE, delay |-> 0])
                   /\ batch' = batch + 1
                   /\ retries' = 0
                   /\ phase' = IF batch + 1 < Len(batches) THEN "upsert" ELSE "indexed"
              ELSE /\ retries' = retries + 1
                   /\ log' = Append(log, [batch |-> batch, attempt |-> retries + 1,
                                          ok |-> FALSE,
                                          delay |-> IF retries + 1 >= maxRetries THEN 0
                                                    ELSE backoffDelay(retries + 1)])
                   /\ phase' = IF retries + 1 >= maxRetries THEN "upsertFailed" ELSE "upsert"
                   /\ UNCHANGED batch
    /\ UNCHANGED <<embeddings, segmenterVars, rankerVars, client>>

IndexNext == GenerateEmbeddings \/ EmbedBatch \/ UpsertBatch

IndexSpec == IndexInit /\ [][IndexNext]_vars

(***************************************************************************)
(* The initialization of the client as a state machine.  Every public      *)
(* operation starts with ensureInitialized; an operation runs until its    *)
(* next await, where another operation may run.  pc of an operation:       *)
(* "idle" (not started), "storeInit" (awaits vectorStoreService            *)
(* .initialize), "launching" (awaits chromium.launch), "health" (awaits    *)
(* healthCheck), "ready" (initialize returned) or "failed" (it threw).     *)
(***************************************************************************)
ClientInit ==
    /\ client = NewClient
    /\ phase = "client"
    /\ config = [maxChunkSize |-> 0, chunkOverlap |-> 0]
    /\ source = [kind |-> "github", url |-> RepoUrl, items |-> <<>>]
    /\ done = 0
    /\ chunks = <<>>
    /\ diverged = FALSE
    /\ raw = <<>> /\ query = <<>> /\ options = <<>> /\ scored = <<>> /\ ranked = <<>>
    /\ formatOptions = <<>> /\ context = <<>>
    /\ StoreIdle

\* ensureInitialized and initialize up to the first await: an initialized
\* client returns at once, else vectorStoreService.initialize() is called
EnsureInitialized(c) ==
    /\ phase = "client"
    /\ client.pc[c] = "idle"
    /\ client' = IF client.initialized
                 THEN [client EXCEPT !.pc[c] = "ready"]
                 ELSE [client EXCEPT !.pc[c] = "storeInit",
                                     !.storeInitializations = @ + 1]
    /\ UNCHANGED <<phase, segmenterVars, rankerVars, storeVars>>

\* vectorStoreService.initialize() returns or throws; then
\* WebScrapingService.initialize up to its await: if (!this.browser) the
\* browser is launched, else healthCheck is called
StoreInitialized(c) ==
    /\ phase = "client"
    /\ client.pc[c] = "storeInit"
    /\ \E ok \in BOOLEAN :
          client' = IF ~ok THEN [client EXCEPT !.pc[c] = "failed"]
                    ELSE IF client.browser = 0
                    THEN [client EXCEPT !.pc[c] = "launching", !.launched = @ \cup {c}]
                    ELSE [client EXCEPT !.pc[c] = "health"]
    /\ UNCHANGED <<phase, segmenterVars, rankerVars, storeVars>>

\* chromium.launch returns: this.browser = the new instance; healthCheck is called
BrowserLaunched(c) ==
    /\ phase = "client"
    /\ client.pc[c] = "launching"
    /\ client' = [client EXCEPT !.browser = c, !.pc[c] = "health"]
    /\ UNCHANGED <<phase, segmenterVars, rankerVars, storeVars>>

\* healthCheck returns: this.initialized = true, or ConfigurationError
HealthChecked(c) ==
    /\ phase = "client"
    /\ client.pc[c] = "health"
    /\ \E healthy \in BOOLEAN :
          client' = IF healthy THEN [client EXCEPT !.initialized = TRUE, !.pc[c] = "ready"]
                    ELSE [client EXCEPT !.pc[c] = "failed"]
    /\ UNCHANGED <<phase, segmenterVars, rankerVars, storeVars>>

ClientNext ==
    \E c \in Callers :
        EnsureInitialized(c) \/ StoreInitialized(c) \/ BrowserLaunched(c) \/ HealthChecked(c)

ClientSpec == ClientInit /\ [][ClientNext]_vars

(***************************************************************************)
(* Properties of the segmenter                                             *)
(***************************************************************************)
Item(k) == source.items[k]
IsRepo == source.kind = "github"
PathOf(k) == IF IsRepo THEN Item(k).path ELSE Item(k).url
\* the chunks of the k-th file or page (the paths of one source are distinct)
ChunksOf(k) == SelectSeq(chunks, LAMBDA c : c.source.path = PathOf(k))
LinesOf(k) == SplitLines(Item(k).content)
Small(k) == Len(Item(k).content) <= maxChunkSize

IsReadme(k) == IsRepo /\ determineFileType(Item(k).path, Item(k).language) = "readme"
IsCode(k) == IsRepo /\ ~IsReadme(k) /\ isCodeFile(Item(k).language)
IsGenericText(k) == IsRepo /\ ~IsReadme(k) /\ ~isCodeFile(Item(k).language)
IsPage(k) == ~IsRepo

\* the file went through the structural splitter, or through the line fallback
UsesCodeStructure(k) ==
    /\ IsCode(k) /\ ~Small(k)
    /\ supportsStructuralChunking(Item(k).language)
    /\ chunkByCodeStructure(Item(k).content,
            GitHubBaseInfo(Item(k), source.url, "code", Item(k).language)) # <<>>
UsesLines(k) == IsCode(k) /\ ~Small(k) /\ ~UsesCodeStructure(k)
\* the file or page went through the paragraph splitter
UsesParagraphs(k) ==
    \/ IsGenericText(k) /\ ~Small(k)
    \/ /\ IsPage(k) /\ ~Small(k)
       /\ chunkByHeadings(Item(k).content, Item(k).headings, PageBaseInfo(Item(k), source.url)) = <<>>

OneVerbatimChunk(k) ==
    /\ Len(ChunksOf(k)) = 1
    /\ ChunksOf(k)[1].content = Item(k).content

\* a line after the first one is a heading line of the readme, or matches a
\* candidate heading of the page
HasLaterBoundary(k) ==
    \E i \in 2..Len(LinesOf(k)) :
        IF IsReadme(k) THEN headingMatch(LinesOf(k)[i]).matched
        ELSE IF IsPage(k) THEN findHeading(Item(k).headings, Trim(LinesOf(k)[i])).found
        ELSE FALSE

C2_NoEmptyChunk ==
    \A i \in 1..Len(chunks) : Len(Trim(chunks[i].content)) > 0

\* C3: every emitted chunk has content of at most maxChunkSize characters.
C3_AtMostMaxChunkSize ==
    \A i \in 1..Len(chunks) : Len(chunks[i].content) <= maxChunkSize

\* C4: every chunk of the line fallback and of the paragraph splitter has
\* content of at most maxChunkSize + chunkOverlap characters.
C4_AtMostMaxPlusOverlap ==
    \A k \in 1..done : UsesLines(k) \/ UsesParagraphs(k) =>
        \A i \in 1..Len(ChunksOf(k)) :
            Len(ChunksOf(k)[i].content) <= maxChunkSize + chunkOverlap

\* the chunk covers the 0-based input line i of file k and holds it at its place
Covers(c, k, i) ==
    /\ c.span[1] <= i /\ i <= c.span[2]
    /\ LET ls == SplitLines(c.content)
       IN  i - c.span[1] + 1 <= Len(ls) /\ ls[i - c.span[1] + 1] = LinesOf(k)[i + 1]

\* C5: for the structural and the line-fallback splitter every input line that
\* is not whitespace-only is contained in at least one chunk, and every chunk
\* is the input lines of its line range.
C5_NoLineLost ==
    \A k \in 1..done : UsesCodeStructure(k) \/ UsesLines(k) =>
        /\ \A i \in 0..(Len(LinesOf(k)) - 1) :
              Trim(LinesOf(k)[i + 1]) # <<>> =>
                  \E j \in 1..Len(ChunksOf(k)) : Covers(ChunksOf(k)[j], k, i)
        /\ \A j \in 1..Len(ChunksOf(k)) :
              LET c == ChunksOf(k)[j]
              IN  c.content = JoinLines(SubSeq(LinesOf(k), c.span[1] + 1, c.span[2] + 1))

\* the structural splitter dropped a whitespace-only chunk and kept the rest
C5_Witness ==
    /\ done >= 1 /\ UsesCodeStructure(1)
    /\ Len(ChunksOf(1)) >= 2
    /\ \E i \in 0..(Len(LinesOf(1)) - 1) :
          \A j \in 1..Len(ChunksOf(1)) : ~Covers(ChunksOf(1)[j], 1, i)

\* C6: no two chunks emitted in one run have the same id.
C6_UniqueIds ==
    \A i, j \in 1..Len(chunks) : i # j => chunks[i].id # chunks[j].id

\* two files of the same content, each split into several chunks
C6_Witness ==
    /\ done = 2
    /\ Len(ChunksOf(1)) >= 2 /\ Len(ChunksOf(2)) >= 2
    /\ \E i, j \in 1..Len(chunks) : i # j /\ chunks[i].id.suffix = chunks[j].id.suffix

\* the lines of the chunks of a file, one chunk after the other
RECURSIVE ChunkLines(_)
ChunkLines(cs) ==
    IF cs = <<>> THEN <<>> ELSE SplitLines(Head(cs).content) \o ChunkLines(Tail(cs))


\* C10: in the markdown splitter a new chunk begins at every heading line (the
\* chunks hold the lines of the file in order and no chunk has a heading line
\* after its first line), a chunk that starts with a heading line has that
\* heading's text as section, and '# A', 'foo', '## B', 'bar' with
\* maxChunkSize 1000 yields a chunk of section A with foo and one of B with bar.
C10_ChunkPerHeading ==
    \A k \in 1..done : IsReadme(k) =>
        LET cs == ChunksOf(k)
        IN  /\ ChunkLines(cs) = LinesOf(k)
            /\ \A j \in 1..Len(cs) :
                  LET ls == SplitLines(cs[j].content)
                  IN  /\ \A i \in 2..Len(ls) : ~headingMatch(ls[i]).matched
                      /\ headingMatch(ls[1]).matched =>
                            cs[j].metadata.section = headingMatch(ls[1]).text
            /\ Item(k).content = ScenarioReadme /\ maxChunkSize = 1000 =>
                  /\ Len(cs) = 2
                  /\ cs[1].metadata.section = <<"A">>
                  /\ cs[1].content = <<"#", " ", "A", "\n", "f", "o", "o">>
                  /\ cs[2].metadata.section = <<"B">>
                  /\ cs[2].content = <<"#", "#", " ", "B", "\n", "b", "a", "r">>

\* the scenario has been chunked
C10_Witness ==
    /\ done >= 1 /\ IsReadme(1)
    /\ Item(1).content = ScenarioReadme /\ maxChunkSize = 1000
    /\ Len(ChunksOf(1)) = 2

(***************************************************************************)
(* Properties of the ranker                                                *)
(***************************************************************************)
Urls == {scored[i].source.url : i \in 1..Len(scored)}
Accepted == CapPass(scored, 1, <<>>)
NoBackfill == Len(Accepted) >= ResultFloor \/ Len(Accepted) = Len(scored)

\* C8: when no backfill takes place (the cap pass accepted at least 10 results,
\* or excluded none), the returned list holds at most 3 results of any url.
C8_CapWithoutBackfill ==
    phase = "ranked" /\ NoBackfill =>
        \A u \in Urls : CountUrl(ranked, u) <= 3

\* the cap pass accepted 10 results and excluded others
C8_Witness ==
    /\ phase = "ranked"
    /\ Len(Accepted) >= ResultFloor
    /\ Len(Accepted) < Len(scored)
    /\ \E u \in Urls : CountUrl(ranked, u) = 3 /\ CountUrl(scored, u) > 3

\* C9: every result of the returned list was ranked with a score of at most 1.0.
C9_ScoreAtMostOne ==
    phase = "ranked" =>
        \A i \in 1..Len(ranked) :
            \E j \in 1..Len(scored) :
                /\ scored[j].ref = ranked[i].ref
                /\ scored[j].adjustedScore <= ScoreDen(query)

\* a returned result whose boosts compound to more than 1.0
C9_Witness ==
    /\ phase = "ranked"
    /\ \E i \in 1..Len(ranked) :
          /\ Len(ranked[i].content) < ShortContent
          /\ BoostedScore(convertToSearchResults(raw)[ranked[i].ref], query) > ScoreDen(query)

(***************************************************************************)
(* C11: every chunk of a repository file carries the category of the       *)
(* file's classification: readme for a path containing 'readme' in any     *)
(* letter case, else documentation for the language markdown, else code    *)
(* (code languages and generic text alike).                                *)
(***************************************************************************)
C11_ChunksCarryFileType ==
    IsRepo =>
        \A k \in 1..done : \A i \in 1..Len(ChunksOf(k)) :
            ChunksOf(k)[i].type = determineFileType(Item(k).path, Item(k).language)

(***************************************************************************)
(* C12: a match that lacks a metadata field (or its metadata record) does  *)
(* not make the search fail: the ranking pass completes and returns the    *)
(* results.                                                                *)
(***************************************************************************)
LacksField(match) ==
    IF "metadata" \notin DOMAIN match THEN TRUE
    ELSE {"content", "type", "section", "language"} \ DOMAIN match.metadata # {}

C12_MissingFieldTolerated ==
    (\E i \in 1..Len(raw) : LacksField(raw[i])) => phase # "failed"

(***************************************************************************)
(* C13: when generateEmbeddings returns (it did not fail), the list has    *)
(* the length of its input and holds at every position the vector of the   *)
(* text at that position.                                                  *)
(***************************************************************************)
C13_VectorAtEveryPosition ==
    phase \in {"upsert", "indexed", "upsertFailed"} =>
        /\ Len(embeddings) = Len(chunkTexts)
        /\ \A i \in 1..Len(chunkTexts) :
              embeddings[i] = Embedding(preprocessText(chunkTexts[i]))

(***************************************************************************)
(* C14: upsertVectors sends the batches in order, one request at a time:   *)
(* the first request is attempt 1 of batch 0; after a success comes        *)
(* attempt 1 of the next batch; after a failed attempt 1 or 2 comes the    *)
(* next attempt of the same batch, after a wait twice as long as the wait  *)
(* before (2 s, then 4 s); no batch has a fourth attempt, and a failed     *)
(* third attempt is the last request: the call fails with                  *)
(* VectorStoreError.                                                       *)
(***************************************************************************)
C14_OrderedBoundedRetries ==
    /\ Len(log) > 0 => log[1].batch = 0 /\ log[1].attempt = 1
    /\ \A k \in 1..Len(log) :
          /\ log[k].attempt <= 3
          /\ log[k].ok => log[k].delay = 0
          /\ ~log[k].ok /\ log[k].attempt = 1 => log[k].delay = 2000
          /\ ~log[k].ok /\ log[k].attempt = 3 => k = Len(log) /\ phase = "upsertFailed"
          /\ k < Len(log) =>
                IF log[k].ok
                THEN log[k + 1].batch = log[k].batch + 1 /\ log[k + 1].attempt = 1
                ELSE /\ log[k + 1].batch = log[k].batch
                     /\ log[k + 1].attempt = log[k].attempt + 1
                     /\ ~log[k + 1].ok /\ log[k + 1].attempt < 3 =>
                            log[k + 1].delay = 2 * log[k].delay
    /\ phase = "upsertFailed" => ~log[Len(log)].ok /\ log[Len(log)].attempt = 3
    /\ phase = "indexed" =>
          Cardinality({k \in 1..Len(log) : log[k].ok}) =
              Len(createBatches(indexVectors, batchSize))

\* the second batch failed three times, after the first had succeeded at its
\* second attempt
C14_Witness ==
    /\ phase = "upsertFailed"
    /\ Len(log) = 5
    /\ ~log[1].ok /\ log[2].ok
    /\ log[3].delay = 2000 /\ log[4].delay = 4000 /\ log[5].batch = 1

(***************************************************************************)
(* C15: the context returned by formatForAI has a character count and a    *)
(* text length of at most maxLength (16000 when the option is not given),  *)
(* whatever the format.                                                    *)
(***************************************************************************)
C15_ContextWithinMaxLength ==
    phase = "formatted" =>
        LET maxLength == IF "maxLength" \in DOMAIN formatOptions
                         THEN formatOptions.maxLength ELSE DefaultMaxLength
        IN  context.characterCount <= maxLength /\ Len(context.text) <= maxLength

(***************************************************************************)
(* C16: with includeCode false the filter sent to the vector store admits  *)
(* no chunk of type code or readme and no such match is returned; with     *)
(* includeDocumentation false it admits no chunk of type documentation     *)
(* and no such match is returned.                                          *)
(***************************************************************************)
TypesReturned ==
    {raw[i].metadata.type : i \in {k \in 1..Len(raw) :
        IF "metadata" \in DOMAIN raw[k] THEN "type" \in DOMAIN raw[k].metadata ELSE FALSE}}

TypesAdmitted ==
    LET filter == buildSearchFilter(options)
    IN  IF "type" \in DOMAIN filter THEN filter["type"] ELSE {"code", "readme", "documentation"}

IsOff(flag) == IF flag \in DOMAIN options THEN options[flag] = FALSE ELSE FALSE

C16_FlagsExcludeTypes ==
    phase # "index" /\ phase # "search" =>
        /\ IsOff("includeCode") =>
              (TypesAdmitted \cup TypesReturned) \cap {"code", "readme"} = {}
        /\ IsOff("includeDocumentation") =>
              "documentation" \notin TypesAdmitted \cup TypesReturned

(***************************************************************************)
(* C17: with a positive maxChunkSize and a positive chunkOverlap every     *)
(* segmentation call terminates: the hard-split loop of splitLongText      *)
(* moves its window start forward at every iteration.                      *)
(***************************************************************************)
C17_SegmentationTerminates ==
    config.maxChunkSize > 0 /\ config.chunkOverlap > 0 => ~diverged

(***************************************************************************)
(* C18: a page none of whose lines matches a candidate heading (the list   *)
(* of candidates may be empty) is segmented by the paragraph splitter: its *)
(* chunks are those of chunkTextContent.                                   *)
(***************************************************************************)
NoLineMatches(k) ==
    \A i \in 1..Len(LinesOf(k)) : ~findHeading(Item(k).headings, Trim(LinesOf(k)[i])).found

C18_FallsBackToParagraphs ==
    IsPage(1) =>
        \A k \in 1..done :
            NoLineMatches(k) =>
                ChunksOf(k) = chunkTextContent(Item(k).content,
                                               PageBaseInfo(Item(k), source.url))

(***************************************************************************)
(* C19: in the heading-guided page splitter a line that matches a          *)
(* candidate heading closes the section in progress and starts a section   *)
(* tagged with the matched heading, wherever the line stands: a chunk has  *)
(* no matching line after its first line, and a chunk whose first line     *)
(* matches a heading has that heading as section.                          *)
(***************************************************************************)
UsesHeadings(k) ==
    /\ IsPage(k)
    /\ Len(chunkByHeadings(Item(k).content, Item(k).headings,
                           PageBaseInfo(Item(k), source.url))) > 0

C19_MatchStartsTaggedSection ==
    \A k \in 1..done :
        UsesHeadings(k) =>
            \A c \in 1..Len(ChunksOf(k)) :
                LET lines == SplitLines(ChunksOf(k)[c].content)
                    first == findHeading(Item(k).headings, Trim(lines[1]))
                IN  /\ \A i \in 2..Len(lines) :
                          ~findHeading(Item(k).headings, Trim(lines[i])).found
                    /\ first.found => ChunksOf(k)[c].metadata.section = first.heading


(***************************************************************************)
(* C20: in the markdown splitter, a chunk that a heading line opened and   *)
(* the arrival of the next heading line closed has as section the text of  *)
(* its own heading and as headingLevel the number of '#' of that heading.  *)
(* Only the chunks closed by a heading line carry a headingLevel.          *)
(***************************************************************************)
ClosedByHeading(chunk) == chunk.metadata.headingLevel > 0

OwnHeading(chunk) == headingMatch(SplitLines(chunk.content)[1])

C20_ClosedChunkHasOwnHeading ==
    \A k \in 1..done :
        IsReadme(k) =>
            \A c \in 1..Len(ChunksOf(k)) :
                LET chunk == ChunksOf(k)[c]
                IN  ClosedByHeading(chunk) /\ OwnHeading(chunk).matched =>
                        /\ chunk.metadata.section = OwnHeading(chunk).text
                        /\ chunk.metadata.headingLevel = OwnHeading(chunk).level


(***************************************************************************)
(* C21: all chunks that the structural splitter derives from one file      *)
(* carry the same dependency list, the duplicate-free import / require     *)
(* targets of the first 50 lines of the file.                              *)
(***************************************************************************)
C21_FileDependenciesOnEveryChunk ==
    \A k \in 1..done :
        UsesCodeStructure(k) =>
            \A c \in 1..Len(ChunksOf(k)) :
                ChunksOf(k)[c].metadata.dependencies =
                    extractDependencies(Item(k).content, Item(k).language)


(***************************************************************************)
(* C22: in the structural splitter, a function or class whose text, from   *)
(* its declaration line through the line on which the brace depth returns  *)
(* to zero, is at most maxChunkSize characters has all of those lines in   *)
(* one single chunk.                                                       *)
(***************************************************************************)
\* the brace depth after the 0-based line j, counted from the start of line i
RECURSIVE BraceDepth(_, _, _)
BraceDepth(ls, i, j) ==
    IF j < i THEN 0
    ELSE BraceDepth(ls, i, j - 1) + CountChar(ls[j + 1], "{") - CountChar(ls[j + 1], "}")

\* the declaration on line i opens a body that closes on the later line j
BodyOf(k, i, j) ==
    /\ isStructureStart(LinesOf(k)[i + 1], Item(k).language)
    /\ i < j
    /\ BraceDepth(LinesOf(k), i, j) = 0
    /\ \A m \in i..(j - 1) : BraceDepth(LinesOf(k), i, m) > 0

FitsOneChunk(k, i, j) == Len(JoinLines(SubSeq(LinesOf(k), i + 1, j + 1))) <= maxChunkSize

C22_FittingBodyInOneChunk ==
    \A k \in 1..done :
        UsesCodeStructure(k) =>
            \A i \in 0..(Len(LinesOf(k)) - 1) : \A j \in 0..(Len(LinesOf(k)) - 1) :
                BodyOf(k, i, j) /\ FitsOneChunk(k, i, j) =>
                    \E c \in 1..Len(ChunksOf(k)) :
                        ChunksOf(k)[c].span[1] <= i /\ j <= ChunksOf(k)[c].span[2]


(***************************************************************************)
(* C23: when an oversized paragraph is hard-split, every window            *)
(* [start, start + maxChunkSize) that does not reach the end of the        *)
(* paragraph is cut just after the last sentence end ('.', '!' or '?'      *)
(* before a space or newline) in the last 20% of the window, else at the   *)
(* last space or newline in the last 10% of the window, else at            *)
(* start + maxChunkSize; the first window and the later ones alike.        *)
(***************************************************************************)
\* the file or page was handed to the paragraph splitter, by a finished call
\* or by the call that hangs
Attempted(k) == k <= done \/ (diverged /\ k = done + 1)

ToParagraphs(k) ==
    /\ ~Small(k)
    /\ \/ IsGenericText(k)
       \/ /\ IsPage(k)
          /\ chunkByHeadings(Item(k).content, Item(k).headings, PageBaseInfo(Item(k), source.url)) = <<>>

\* [text, starts]: the paragraphs of the k-th file that splitLongText was
\* called with, up to the one it hangs on, and the window starts of each
HardSplits(k) ==
    LET ps == SplitParagraphs(Item(k).content)
        hangs(i) == Len(ps[i]) > maxChunkSize /\ splitLongText(ps[i], maxChunkSize).diverged
    IN  {[text |-> ps[i], starts |-> splitLongText(ps[i], maxChunkSize).starts] :
            i \in {j \in 1..Len(ps) : /\ Len(ps[j]) > maxChunkSize
                                      /\ \A h \in 1..(j - 1) : ~hangs(h)}}

\* the cut the window [start, start + size) is to get
WindowCut(text, start, size) ==
    LET sentence == {i \in start..(start + size - 1) :
                        /\ 10 * (i - start) > 8 * size
                        /\ CharAt(text, i) \in {".", "!", "?"}
                        /\ CharAt(text, i + 1) \in {" ", NL}}
        word == {i \in start..(start + size - 1) :
                        /\ 10 * (i - start) > 9 * size
                        /\ CharAt(text, i) \in {" ", NL}}
    IN  IF sentence # {} THEN SetMax(sentence) + 1
        ELSE IF word # {} THEN SetMax(word)
        ELSE start + size

C23_EveryWindowCutAlike ==
    \A k \in 1..Len(source.items) :
        Attempted(k) /\ ToParagraphs(k) =>
            \A split \in HardSplits(k) : \A start \in split.starts :
                start + maxChunkSize < Len(split.text) =>
                    findTextBreakPoint(split.text, start, start + maxChunkSize)
                        = WindowCut(split.text, start, maxChunkSize)


(***************************************************************************)
(* C24: after each cut at position p of the hard split the next window     *)
(* starts at max(0, p - chunkOverlap): no window start is negative, and    *)
(* two adjacent sub-chunks share at most chunkOverlap characters.          *)
(***************************************************************************)
C24_NextWindowStartClamped ==
    \A k \in 1..Len(source.items) :
        Attempted(k) /\ ToParagraphs(k) =>
            \A split \in HardSplits(k) :
                /\ \A start \in split.starts : start >= 0
                /\ \A start \in split.starts :
                      start + maxChunkSize < Len(split.text) =>
                          LET p == findTextBreakPoint(split.text, start, start + maxChunkSize)
                          IN  /\ p - chunkOverlap < Len(split.text) =>
                                    Max2(0, p - chunkOverlap) \in split.starts
                              /\ p - Max2(0, p - chunkOverlap) <= chunkOverlap


(***************************************************************************)
(* C25: if the cap pass accepted fewer than 10 results and excluded at     *)
(* least one, the excluded results are appended in their rank order until  *)
(* 10 results are accepted or the excluded pool is exhausted, and          *)
(* otherwise nothing is appended: the returned list has length             *)
(* min(N, max(C, 10)) for N candidates of which the cap pass accepted C,   *)
(* and each candidate appears at most once.                                *)
(***************************************************************************)
Excluded == SelectSeq(scored, LAMBDA r : ~IncludesRef(Accepted, r))

C25_BackfillToFloor ==
    phase \in {"ranked", "formatted"} =>
        /\ Len(ranked) = Min2(Len(scored), Max2(Len(Accepted), ResultFloor))
        /\ \A i \in 1..Len(Accepted) : ranked[i].ref = Accepted[i].ref
        /\ \A i \in 1..(Len(ranked) - Len(Accepted)) :
              ranked[Len(Accepted) + i].ref = Excluded[i].ref
        /\ \A i \in 1..Len(ranked) : \A j \in 1..Len(ranked) :
              ranked[i].ref = ranked[j].ref => i = j

\* the backfill stopped at 10 results and left excluded results out
C25_Witness ==
    /\ phase = "ranked"
    /\ Len(Accepted) < ResultFloor
    /\ Len(ranked) = ResultFloor
    /\ Len(ranked) > Len(Accepted)
    /\ Len(scored) > ResultFloor


(***************************************************************************)
(* C26: the list returned by the ranker is in non-increasing order of      *)
(* adjusted score, and results of equal adjusted score keep the relative   *)
(* order they had in the raw input (ref is the position in the raw input). *)
(***************************************************************************)
AdjustedOf(r) == (CHOOSE i \in 1..Len(scored) : scored[i].ref = r.ref)

C26_ReturnedInScoreOrder ==
    phase \in {"ranked", "formatted"} =>
        \A i \in 1..Len(ranked) : \A j \in (i + 1)..Len(ranked) :
            LET a == scored[AdjustedOf(ranked[i])].adjustedScore
                b == scored[AdjustedOf(ranked[j])].adjustedScore
            IN  /\ a >= b
                /\ a = b => ranked[i].ref < ranked[j].ref


(***************************************************************************)
(* C27: in the line-fallback splitter each emitted chunk ends at a         *)
(* strictly later input line than the chunk emitted before it, so no two   *)
(* chunks of one file cover the same line range.                           *)
(***************************************************************************)
C27_ChunkEndsAdvance ==
    \A k \in 1..done :
        UsesLines(k) =>
            /\ \A c \in 2..Len(ChunksOf(k)) :
                  ChunksOf(k)[c].span[2] > ChunksOf(k)[c - 1].span[2]
            /\ \A c \in 1..Len(ChunksOf(k)) : \A d \in 1..Len(ChunksOf(k)) :
                  ChunksOf(k)[c].span = ChunksOf(k)[d].span => c = d


(***************************************************************************)
(* C28: if several operations are started concurrently on a client that    *)
(* is not yet initialized, the service initialization is carried out once  *)
(* only, and at most one browser instance is ever launched and held.       *)
(***************************************************************************)
C28_InitializedOnce ==
    /\ client.storeInitializations <= 1
    /\ Cardinality(client.launched) <= 1


(***************************************************************************)
(* C29: indexSource is all-or-nothing with respect to the vector store:    *)
(* whenever it returns a result with success = false, no vector of that    *)
(* call has been stored (no upsert request of the call was accepted).      *)
(***************************************************************************)
ReturnsFailure == phase \in {"noContent", "embedFailed", "upsertFailed"}

C29_FailureStoresNothing ==
    ReturnsFailure => \A i \in 1..Len(log) : ~log[i].ok


(***************************************************************************)
(* C30: every chunk produced from a documentation page has source kind     *)
(* documentation and carries the page title, whichever splitter produced   *)
(* it (heading-guided splitter, single-chunk fast path, paragraph          *)
(* splitter).                                                              *)
(***************************************************************************)
C30_PageChunksKeepKindAndTitle ==
    \A k \in 1..done :
        IsPage(k) =>
            \A c \in 1..Len(ChunksOf(k)) :
                /\ ChunksOf(k)[c].source.type = "documentation"
                /\ ChunksOf(k)[c].source.title = Item(k).title

====
